---- MODULE Spec2Model ----
(***************************************************************************)
(* Chat relay server of homework_11 (server/src/startup.rs) with the wire  *)
(* message type of shared/src/message.rs and the user store of             *)
(* server/src/db.rs.                                                       *)
(*                                                                         *)
(* One session handler task per accepted connection (handle_connection),   *)
(* one broadcaster task (broadcast_messages), the registry                 *)
(* Arc<Mutex<HashMap<SocketAddr, OwnedWriteHalf>>> and the unbounded flume *)
(* channel between them.  Every await point of the source at which shared  *)
(* state is touched is one action.                                         *)
(***************************************************************************)
EXTENDS Integers, Sequences, FiniteSets, TLC

\* ------------------------------------------------------------------ bounds
\* events the environment contributes to one run: connections accepted, Login
\* frames sent, chat frames submitted, peers whose stream ends, database
\* calls that fail
MaxEvents == 6

\* bytes of the longest frame followed on the wire
MaxFrameLen == 48
\* inputs and faults in the runs where clients submit every payload variant
PersistEvents == 5
\* inputs and faults in the runs that start with an undecodable user row
CorruptEvents == 5
\* steps each of the process's two tasks takes at most
MaxWork == 4
\* frames and stream errors a client receiver is given at most
MaxStream == 3
\* Messages written to one sink at most
MaxSinkFrames == 2
\* inputs and faults in the runs that follow the listener
ListenEvents == 5
\* inputs and faults in the runs under fair scheduling
FairEvents == 5
\* errors accept returns in the runs that follow the listener
MaxAcceptErrors == 2
\* inputs and faults in the runs where the runtime shuts down
ShutdownEvents == 5

\* ------------------------------------------------------------ value spaces
\* peer socket addresses, named in the order the listener accepts them;
\* one connection is accepted per address
AcceptOrder == <<"a1", "a2", "a3">>
Addrs == {AcceptOrder[i] : i \in DOMAIN AcceptOrder}
Names == {"alice", "bob"}
\* Login frames the clients send: (name, password)
Logins == {<<"alice", "pw1">>, <<"alice", "pw2">>, <<"bob", "pw1">>}
\* Option::None
None == "None"
\* the broadcaster task, as a caller of remove_client
Broadcaster == "broadcaster"
\* sender values a client may put into a frame it submits
ClientSenders == {None, "bob"}
\* payload variants a client submits in ACTIVE
SubmitKinds == {"Text"}
\* the six variants of MessagePayload
PayloadKinds == {"Text", "Image", "File", "ServerInfo", "Login", "LoginResponse"}
\* payload variants a client sends while AUTHENTICATING
AuthKinds == {"Login", "Text"}
\* ghost origin of frames the server builds itself
Server == "server"

VARIABLES
    pc,                 \* handler position of each connection
    pending,            \* AuthUser of the Login being processed
    current_user,       \* UserInfo returned by run_until_authenticated
    clients_count,      \* local of handle_connection (line 74)
    clients,            \* the registry: addresses whose write half it holds
    lock,               \* holder of the registry mutex across await points
    channel,            \* flume channel: sequence of (SocketAddr, Message)
    bcpc,               \* broadcaster position
    cur,                \* tuple the broadcaster is fanning out
    clients_to_remove,  \* addresses whose write failed in this fan-out
    out,                \* frames written successfully to each peer's socket
    users,              \* users table: username -> row or None
    messages,           \* messages table: rows in insertion order
    next_uuid,          \* next value Uuid::new_v4 returns for a user id
    broken,             \* peers whose stream has ended: closed, reset, or
                        \* carrying a frame that does not decode
    messages_counter,   \* MESSAGES_COUNTER
    active_connections, \* ACTIVE_CONNECTIONS
    \* ---- history variables (not read by any action's guard or effect)
    submitted,          \* frames each session has submitted in ACTIVE
    nlogin,             \* Login frames sent so far
    db_faults,          \* database calls that have failed so far
    snap,               \* registry at lock acquisition of the current fan-out
    written,            \* write calls issued per peer in the current fan-out
    consumed,           \* tuples the broadcaster has taken from the channel
    othersAtSnapshot,   \* other peers registered when clients_count was read
    joinNotices,        \* join notices each session has enqueued
    authAtAccept,       \* sessions already authenticated when this one was accepted
    refused,            \* sessions that sent a wrong password for an existing user
    ignored,            \* frames other than Login received in AUTHENTICATING
    \* ---- one frame on one stream (shared/src/message.rs)
    wire_pc,            \* "start", "sent" or "received"
    wire_msg,           \* the Message handed to send_msg
    wire_stream,        \* the bytes the reader finds before end of stream
    wire_result,        \* what receive_msg returned
    \* ---- the extent of the runs explored (never changed by any step)
    max_events,         \* inputs and faults the environment may still cause
    submit_kinds,       \* payload variants the clients submit in ACTIVE
    \* ---- the HTTP API (server/src/api.rs)
    http,               \* the last response the API gave
    admin_ops,          \* requests the API has served
    deleted_ids,        \* ids whose DELETE was answered 204 (history)
    submittedAtDelete,  \* frames a session had submitted when its user's
                        \* row was deleted, -1 while the row has not been
    \* ---- one GET /messages request (api.rs, db.rs)
    q_pc,               \* "off", "request" or "done"
    q_users,            \* users table: username -> id
    q_messages,         \* messages table: rows (id, user_id, text, timestamp)
    q_query,            \* the username parameter of the query string
    q_response,         \* the response: status and rows
    \* ---- the process (server/src/main.rs)
    main_pc,            \* position of main
    chat_server_task,   \* the task running start(configuration)
    api_task,           \* the task running api.run_until_stopped()
    task_work,          \* steps each task has taken
    main_log,           \* what log_exit was called with
    \* ---- the client's receiver (client/src/client.rs)
    rx_pc,              \* position of ClientReceiver::start
    rx_key,             \* encryption_key is Some
    rx_stream,          \* what the reads of the stream will return, in order
    rx_handled,         \* frames handle_message was called with, in order
    rx_errors,          \* errors of handle_message that were logged
    rx_written,         \* what the receiver wrote to its writer
    \* ---- a sequence of frames written to one sink (shared/src/message.rs)
    sink_pc,            \* "off", "length", "body" or "read"
    sink_todo,          \* Messages send_msg is still to be called with
    sink_sent,          \* Messages send_msg has returned Ok for
    sink_stream,        \* the bytes the sink has accepted
    sink_short,         \* write calls that accepted fewer bytes than offered
    \* ---- the listener (start, startup.rs lines 24-56)
    listener,           \* "unbound", "listening" or "Err(Bind)"
    accept_errors,      \* errors accept has returned
    broadcaster         \* the broadcast_messages task, which owns the channel's
                        \* receiver: "none", "spawned" or "dropped"

\* the chat server's state
chatVars == <<pc, pending, current_user, clients_count, clients, lock, channel,
              bcpc, cur, clients_to_remove, out, users, messages,
              next_uuid, broken,
              messages_counter, active_connections, submitted, nlogin,
              db_faults, snap,
              written, consumed, othersAtSnapshot, joinNotices, authAtAccept,
              refused, ignored>>
\* one frame on one stream
wireVars == <<wire_pc, wire_msg, wire_stream, wire_result>>
\* everything the chat server's steps leave alone
extentVars == <<max_events, submit_kinds>>
\* the HTTP API
apiVars == <<http, admin_ops, deleted_ids, submittedAtDelete>>
\* one GET /messages request
queryVars == <<q_pc, q_users, q_messages, q_query, q_response>>
\* the process
mainVars == <<main_pc, chat_server_task, api_task, task_work, main_log>>
\* the client's receiver
clientVars == <<rx_pc, rx_key, rx_stream, rx_handled, rx_errors, rx_written>>
\* frames written to one sink
sinkVars == <<sink_pc, sink_todo, sink_sent, sink_stream, sink_short>>
\* the listener
listenVars == <<listener, accept_errors, broadcaster>>
otherVars == <<wireVars, extentVars, apiVars, queryVars, mainVars, clientVars,
               sinkVars, listenVars>>

\* everything the steps of send_msg and receive_msg leave alone
exceptWire == <<chatVars, extentVars, apiVars, queryVars, mainVars, clientVars,
    sinkVars, listenVars>>
\* everything a request to the HTTP API leaves alone besides the sessions
exceptApi == <<wireVars, extentVars, queryVars, mainVars, clientVars,
    sinkVars, listenVars>>
\* everything a GET /messages request leaves alone
exceptQuery == <<chatVars, wireVars, extentVars, apiVars, mainVars, clientVars,
    sinkVars, listenVars>>
\* everything main and its two tasks leave alone
exceptMain == <<chatVars, wireVars, extentVars, apiVars, queryVars, clientVars,
    sinkVars, listenVars>>
\* everything the client's receiver leaves alone
exceptClient == <<chatVars, wireVars, extentVars, apiVars, queryVars, mainVars,
    sinkVars, listenVars>>

\* everything writing to the sink leaves alone
exceptSink == <<chatVars, wireVars, extentVars, apiVars, queryVars, mainVars,
    clientVars, listenVars>>
\* everything the listener's own steps leave alone
exceptListen == <<chatVars, wireVars, extentVars, apiVars, queryVars, mainVars,
    clientVars, sinkVars>>

vars == <<chatVars, otherVars>>

\* ---------------------------------------------------------------- messages
\* Message { sender, timestamp, data }; data is (kind, arg).  src and seq
\* identify the frame for the properties: the session it was enqueued for
\* (Server for frames written directly) and its index among the frames that
\* session submitted (0 for frames the server built).
Msg(sender, kind, arg, src, seq) ==
    [sender |-> sender, kind |-> kind, arg |-> arg, src |-> src, seq |-> seq]

\* Message::new
Message_new(kind, arg) == Msg(None, kind, arg, Server, 0)

\* Message::new_server_msg
Message_new_server_msg(text) == Msg(None, "ServerInfo", text, Server, 0)

\* Message::set_from_user
set_from_user_keep(m, username) == m
set_from_user(m, username) == [m EXCEPT !.sender = username]

\* AuthPayload::new_login
AuthPayload_new_login == [is_ok |-> TRUE, message |-> "LoginSuccessful", err |-> None]
\* AuthPayload::new_register
AuthPayload_new_register == [is_ok |-> TRUE, message |-> "UserRegistered", err |-> None]
\* AuthPayload::new_error
AuthPayload_new_error_as_login == [is_ok |-> TRUE, message |-> "LoginSuccessful", err |-> None]
AuthPayload_new_error == [is_ok |-> FALSE, message |-> None, err |-> "IncorrectPassword"]

\* the text of Message::send_active_users_msg
ActiveUsersText(n) == <<"Active users: ", n>>
\* the text built at line 85
NewUserText(username) == <<"New user connected: ", username>>

\* the message built at line 85 for the session of address a; src records, for
\* the properties only, whose join it announces
JoinNotice(a, username) ==
    [Message_new_server_msg(NewUserText(username)) EXCEPT !.src = a]

NoTuple == [addr |-> None, msg |-> None]
\* get_user returning Ok(None): no row for the username
NoRow == [id |-> 0, password |-> None]
NoAuthUser == [name |-> None, password |-> None]
NoUserInfo == [id |-> 0, username |-> None]

\* MessagePayload::serialize_to_text
\* (a text is the sequence of the strings it is concatenated from, the empty
\* string the empty sequence)
serialize_to_text_file_bytes(kind, arg) ==
    CASE kind = "Text" -> <<arg>>
      [] kind = "Image" -> <<"img sent">>
      [] kind = "File" -> <<"file sent: ", arg[2]>>
      [] OTHER -> <<>>
serialize_to_text(kind, arg) ==
    CASE kind = "Text" -> <<arg>>
      [] kind = "Image" -> <<"img sent">>
      [] kind = "File" -> <<"file sent: ", arg[1]>>
      [] OTHER -> <<>>

\* the payload a client puts into a frame of the given variant
PayloadArg(kind) ==
    CASE kind = "Text" -> "hi"
      [] kind = "Image" -> "png bytes"
      [] kind = "File" -> <<"notes.txt", "file bytes">>
      [] kind = "ServerInfo" -> "notice"
      [] kind = "Login" -> [name |-> "alice", password |-> "pw1"]
      [] kind = "LoginResponse" -> AuthPayload_new_error

\* ------------------------------------------------------- registry, channel
\* HashMap::len at line 74
ClientsCount_plus_self(reg) == Cardinality(reg) + 1
ClientsCount(reg) == Cardinality(reg)

\* HashMap::insert at line 82
RegistryInsert(reg, addr) == reg \cup {addr}

\* HashMap::remove in remove_client
RegistryRemove_noop(reg, addr) == reg
RegistryRemove(reg, addr) == reg \ {addr}

\* the filter of the fan-out (line 124)
Recipients_other_users(reg, ip_addr) ==
    {q \in reg : current_user[q].username # current_user[ip_addr].username}
Recipients_all(reg, ip_addr) == reg
Recipients(reg, ip_addr) == {client_addr \in reg : client_addr # ip_addr}

\* tokio::sync::Mutex::lock().await completes: no guard of the registry mutex
\* is alive
LockAvailable_always(l) == TRUE
LockAvailable(l) == l = "free"

\* MESSAGES_COUNTER.inc() (line 118)
MESSAGES_COUNTER_inc_none(c) == c
MESSAGES_COUNTER_inc(c) == c + 1

\* Sender::send_async on the unbounded channel
send_async_lost(ch, t) == ch
send_async_front(ch, t) == <<t>> \o ch
send_async(ch, t) == Append(ch, t)

\* the order of the statements of handle_connection once
\* run_until_authenticated has returned (69): snapshot and welcome (74-80),
\* insert (82), join notice (85-89), receive loop (92)
AfterStep_welcome_last(p) ==
    CASE p = "auth" -> "insert"
      [] p = "insert" -> "notify"
      [] p = "notify" -> "count"
      [] p = "count" -> "recv"
AfterStep_notify_first(p) ==
    CASE p = "auth" -> "count"
      [] p = "count" -> "notify"
      [] p = "notify" -> "insert"
      [] p = "insert" -> "recv"
AfterStep(p) ==
    CASE p = "auth" -> "count"
      [] p = "count" -> "insert"
      [] p = "insert" -> "notify"
      [] p = "notify" -> "recv"

\* `if let MessagePayload::Login(auth_user) = msg.data` (line 171)
IsLogin_any(kind) == TRUE
IsLogin(kind) == kind = "Login"

\* outcomes of a socket write: it can fail only once the peer is gone
WriteOutcomes(a) == IF a \in broken THEN {TRUE, FALSE} ELSE {TRUE}

\* User::verify_user_password on a row whose (hash, salt) were derived from
\* row.password by TryFrom<AuthUser>
verify_user_password_any(row, password_to_verify) == TRUE
verify_user_password(row, password_to_verify) == row.password = password_to_verify

\* stored credentials that are not base64: the salt column, or the password
\* column
CorruptSalt == "salt: not base64"
CorruptHash == "hash: not base64"
\* User::verify_user_password, lines 27-33: both columns decode
Decodes(row) == row.password \notin {CorruptSalt, CorruptHash}
\* User::verify_user_password: Result<bool, ServerError>
VerifyResult(row, password_to_verify) ==
    IF ~Decodes(row) THEN "Err(PasswordDecode)"
    ELSE IF verify_user_password(row, password_to_verify) THEN "Ok(true)"
    ELSE "Ok(false)"
\* verify_or_create_user, lines 217-222: Ok(Some(user)) only for Ok(true);
\* Ok(false) gives Ok(None) and an Err is returned by the `?`
Verified_unless_refused(verification_result) == verification_result # "Ok(false)"
Verified(verification_result) == verification_result = "Ok(true)"

RECURSIVE SumOver(_, _)
SumOver(f, S) == IF S = {} THEN 0
                 ELSE LET x == CHOOSE y \in S : TRUE
                      IN f[x] + SumOver(f, S \ {x})

\* frames submitted in ACTIVE so far, over all sessions
Submitted == SumOver(submitted, Addrs)


\* sessions for which run_until_authenticated has returned Ok
Authenticated == {a \in Addrs : current_user[a] # NoUserInfo}

\* events of the environment so far
Events == Cardinality({a \in Addrs : pc[a] # "idle"}) + nlogin + Submitted
          + Cardinality(broken) + db_faults + ignored + admin_ops

\* results a database call can have, in a step that itself takes `used`
\* events: Ok (TRUE) or a backend error (FALSE)
DbOutcomes(used) == IF Events + used < max_events THEN {TRUE, FALSE} ELSE {TRUE}
DbFaultAfter(db_ok) == IF db_ok THEN db_faults ELSE db_faults + 1

\* ------------------------------------------------- the frame on the wire
\* Strings and blobs are sequences of bytes; the strings of the model are
\* ASCII.  Option<String> is a record, so that Some("") and None differ.
NoneStr == [some |-> FALSE, val |-> <<>>]
SomeStr(str) == [some |-> TRUE, val |-> str]

\* MessagePayload, one record shape for the six variants
WirePayload(kind, s1, s2, is_ok, message, err) ==
    [kind |-> kind, s1 |-> s1, s2 |-> s2, is_ok |-> is_ok, message |-> message,
     err |-> err]
PText(text) == WirePayload("Text", text, <<>>, FALSE, None, None)
PImage(blob) == WirePayload("Image", blob, <<>>, FALSE, None, None)
PFile(name, blob) == WirePayload("File", name, blob, FALSE, None, None)
PServerInfo(text) == WirePayload("ServerInfo", text, <<>>, FALSE, None, None)
PLogin(name, password) == WirePayload("Login", name, password, FALSE, None, None)
PLoginResponse(auth) ==
    WirePayload("LoginResponse", <<>>, <<>>, auth.is_ok, auth.message, auth.err)

\* Message { sender, timestamp, data }
WireMessage(sender, timestamp, data) ==
    [sender |-> sender, timestamp |-> timestamp, data |-> data]

\* the messages sent in the runs explored
WireSenders == {NoneStr, SomeStr(<<>>), SomeStr(<<97>>), SomeStr(<<97, 108>>)}
WireTimestamps == {0, 1, 1700000000, -1, -86400}
WirePayloads ==
    {PText(<<>>), PText(<<104, 105>>), PImage(<<>>), PImage(<<0, 255>>),
     PFile(<<102>>, <<1, 2>>), PServerInfo(<<120>>), PLogin(<<97>>, <<112, 119>>),
     PLoginResponse(AuthPayload_new_login), PLoginResponse(AuthPayload_new_register),
     PLoginResponse(AuthPayload_new_error)}

\* the largest integer of the model; stands for every length beyond it
Huge == 2147483647

\* little-endian bytes of a length below 2^31, as bincode writes a u64 (w = 8)
\* or a u32 variant index (w = 4)
LE(n, w) ==
    [i \in 1..w |-> IF i <= 4 THEN (n \div (256 ^ (i - 1))) % 256 ELSE 0]
\* u32::to_be_bytes
BE32(n) ==
    <<(n \div 16777216) % 256, (n \div 65536) % 256, (n \div 256) % 256, n % 256>>
\* u32::from_be_bytes, as usize
FromBE32(b) ==
    IF b[1] >= 128 THEN Huge
    ELSE b[1] * 16777216 + b[2] * 65536 + b[3] * 256 + b[4]
\* the value of w little-endian bytes
FromLE(b, w) ==
    IF b[4] >= 128 \/ \E i \in 5..w : b[i] # 0 THEN Huge
    ELSE b[1] + b[2] * 256 + b[3] * 65536 + b[4] * 16777216
\* i64 in two's complement, little-endian, for values of 32 bits
I64LE(n) ==
    IF n >= 0 THEN LE(n, 8)
    ELSE LET m == (n + 2147483647) + 1
         IN <<m % 256, (m \div 256) % 256, (m \div 65536) % 256,
              (m \div 16777216) + 128, 255, 255, 255, 255>>
I64FromLE(b) ==
    IF b[4] < 128 /\ \A i \in 5..8 : b[i] = 0
    THEN b[1] + b[2] * 256 + b[3] * 65536 + b[4] * 16777216
    ELSE IF b[4] >= 128 /\ \A i \in 5..8 : b[i] = 255
    THEN ((b[1] + b[2] * 256 + b[3] * 65536 + (b[4] - 128) * 16777216)
          - 2147483647) - 1
    ELSE Huge

\* serde variant indices of MessagePayload, AuthMessage and AuthError
VariantIndex(kind) ==
    CASE kind = "Text" -> 0 [] kind = "Image" -> 1 [] kind = "File" -> 2
      [] kind = "ServerInfo" -> 3 [] kind = "Login" -> 4
      [] kind = "LoginResponse" -> 5
AuthMessageIndex(message) ==
    CASE message = "LoginSuccessful" -> 0 [] message = "UserRegistered" -> 1
AuthErrorIndex(err) == CASE err = "IncorrectPassword" -> 0

\* bincode of String and Vec<u8>: length as u64, then the bytes
EncBytes(b) == LE(Len(b), 8) \o b
\* bincode of Option<String>
EncOptStr_always_none(o) == <<0>>
EncOptStr(o) == IF o.some THEN <<1>> \o EncBytes(o.val) ELSE <<0>>
\* bincode of Option<AuthMessage> and Option<AuthError>
EncOptMessage(message) ==
    IF message = None THEN <<0>> ELSE <<1>> \o LE(AuthMessageIndex(message), 4)
EncOptErr(err) ==
    IF err = None THEN <<0>> ELSE <<1>> \o LE(AuthErrorIndex(err), 4)
\* bincode of MessagePayload
EncPayload(d) ==
    LE(VariantIndex(d.kind), 4) \o
    CASE d.kind \in {"Text", "Image", "ServerInfo"} -> EncBytes(d.s1)
      [] d.kind \in {"File", "Login"} -> EncBytes(d.s1) \o EncBytes(d.s2)
      [] d.kind = "LoginResponse" ->
            <<IF d.is_ok THEN 1 ELSE 0>> \o EncOptMessage(d.message) \o EncOptErr(d.err)

\* Message::serialize: bincode::serialize of the struct, field by field
serialize(message) ==
    EncOptStr(message.sender) \o I64LE(message.timestamp) \o EncPayload(message.data)

\* ---- bincode::deserialize: each reader returns whether it succeeded, the
\* value read and the bytes left
DecFail == [ok |-> FALSE, val |-> 0, rest |-> <<>>]
DecOk(val, rest) == [ok |-> TRUE, val |-> val, rest |-> rest]
Take(b, n) ==
    IF n <= Len(b) THEN DecOk(SubSeq(b, 1, n), SubSeq(b, n + 1, Len(b))) ELSE DecFail
DecUint(b, w) ==
    LET t == Take(b, w)
    IN IF t.ok THEN DecOk(FromLE(t.val, w), t.rest) ELSE DecFail
DecBytes(b) ==
    LET l == DecUint(b, 8)
    IN IF l.ok THEN Take(l.rest, l.val) ELSE DecFail
\* String is Vec<u8> that is valid UTF-8
DecStr(b) ==
    LET r == DecBytes(b)
    IN IF r.ok /\ \A i \in DOMAIN r.val : r.val[i] < 128 THEN r ELSE DecFail
DecOptStr(b) ==
    LET t == Take(b, 1)
    IN IF ~t.ok THEN DecFail
       ELSE IF t.val[1] = 0 THEN DecOk(NoneStr, t.rest)
       ELSE IF t.val[1] = 1
       THEN LET r == DecStr(t.rest)
            IN IF r.ok THEN DecOk(SomeStr(r.val), r.rest) ELSE DecFail
       ELSE DecFail
DecI64(b) ==
    LET t == Take(b, 8)
    IN IF t.ok THEN DecOk(I64FromLE(t.val), t.rest) ELSE DecFail
DecBool(b) ==
    LET t == Take(b, 1)
    IN IF t.ok /\ t.val[1] \in {0, 1} THEN DecOk(t.val[1] = 1, t.rest) ELSE DecFail
\* Option of a fieldless enum whose variants are `names`, in index order
DecOptEnum(b, names) ==
    LET t == Take(b, 1)
    IN IF ~t.ok THEN DecFail
       ELSE IF t.val[1] = 0 THEN DecOk(None, t.rest)
       ELSE IF t.val[1] = 1
       THEN LET v == DecUint(t.rest, 4)
            IN IF v.ok /\ v.val < Len(names)
               THEN DecOk(names[v.val + 1], v.rest) ELSE DecFail
       ELSE DecFail
DecOne(b, kind, text) ==
    LET r == IF text THEN DecStr(b) ELSE DecBytes(b)
    IN IF r.ok THEN DecOk(WirePayload(kind, r.val, <<>>, FALSE, None, None), r.rest)
       ELSE DecFail
DecTwo(b, kind, text2) ==
    LET r1 == DecStr(b)
        r2 == IF ~r1.ok THEN DecFail
              ELSE IF text2 THEN DecStr(r1.rest) ELSE DecBytes(r1.rest)
    IN IF r2.ok
       THEN DecOk(WirePayload(kind, r1.val, r2.val, FALSE, None, None), r2.rest)
       ELSE DecFail
DecAuthPayload(b) ==
    LET ok == DecBool(b)
        m == IF ok.ok THEN DecOptEnum(ok.rest, <<"LoginSuccessful", "UserRegistered">>)
             ELSE DecFail
        e == IF m.ok THEN DecOptEnum(m.rest, <<"IncorrectPassword">>) ELSE DecFail
    IN IF e.ok
       THEN DecOk(WirePayload("LoginResponse", <<>>, <<>>, ok.val, m.val, e.val), e.rest)
       ELSE DecFail
DecPayload(b) ==
    LET v == DecUint(b, 4)
    IN IF ~v.ok THEN DecFail
       ELSE CASE v.val = 0 -> DecOne(v.rest, "Text", TRUE)
              [] v.val = 1 -> DecOne(v.rest, "Image", FALSE)
              [] v.val = 2 -> DecTwo(v.rest, "File", FALSE)
              [] v.val = 3 -> DecOne(v.rest, "ServerInfo", TRUE)
              [] v.val = 4 -> DecTwo(v.rest, "Login", TRUE)
              [] v.val = 5 -> DecAuthPayload(v.rest)
              [] OTHER -> DecFail

\* results of the fallible calls
Ok(val) == [ok |-> TRUE, val |-> val, err |-> None]
Err(err) == [ok |-> FALSE, val |-> None, err |-> err]
NoResult == [ok |-> FALSE, val |-> None, err |-> "not called"]

\* Message::deserialize: bincode::deserialize, DeserializeError on failure;
\* bytes after the value are not looked at
deserialize(data) ==
    LET sender == DecOptStr(data)
        timestamp == IF sender.ok THEN DecI64(sender.rest) ELSE DecFail
        payload == IF timestamp.ok THEN DecPayload(timestamp.rest) ELSE DecFail
    IN IF payload.ok
       THEN Ok(WireMessage(sender.val, timestamp.val, payload.val))
       ELSE Err("DeserializeError")

\* the bytes Message::send_msg writes: the length as u32 big-endian, then the
\* serialized message
Frame(message) ==
    LET serialized == serialize(message)
    IN BE32(Len(serialized)) \o serialized

\* tokio's read_exact of n bytes on a stream holding b before its end: the
\* bytes, or io::ErrorKind::UnexpectedEof when fewer than n are left, none
\* included
read_exact(b, n) == IF n <= Len(b) THEN Take(b, n) ELSE DecFail

\* Message::receive_msg on a stream that holds `stream` and then ends
receive_msg(stream) ==
    LET len_bytes == read_exact(stream, 4)
    IN IF ~len_bytes.ok THEN Err("RecieveError(UnexpectedEof)")
       ELSE LET len == FromBE32(len_bytes.val)
                buffer == read_exact(len_bytes.rest, len)
            IN IF ~buffer.ok THEN Err("RecieveError(UnexpectedEof)")
               ELSE deserialize(buffer.val)

\* --------------------------------------------------------------------- Init
ChatStart(user_table, uuid) ==
    /\ pc = [a \in Addrs |-> "idle"]
    /\ pending = [a \in Addrs |-> NoAuthUser]
    /\ current_user = [a \in Addrs |-> NoUserInfo]
    /\ clients_count = [a \in Addrs |-> 0]
    /\ clients = {}
    /\ lock = "free"
    /\ channel = <<>>
    /\ bcpc = "recv"
    /\ cur = NoTuple
    /\ clients_to_remove = {}
    /\ out = [a \in Addrs |-> <<>>]
    /\ users = user_table
    /\ messages = <<>>
    /\ next_uuid = uuid
    /\ broken = {}
    /\ messages_counter = 0
    /\ active_connections = 0
    /\ submitted = [a \in Addrs |-> 0]
    /\ nlogin = 0
    /\ db_faults = 0
    /\ snap = {}
    /\ written = [a \in Addrs |-> 0]
    /\ consumed = 0
    /\ othersAtSnapshot = [a \in Addrs |-> 0]
    /\ joinNotices = [a \in Addrs |-> 0]
    /\ authAtAccept = [a \in Addrs |-> {}]
    /\ refused = {}
    /\ ignored = 0

\* the server starts on an empty database
ChatInit == ChatStart([n \in Names |-> NoRow], 1)

\* no frame is followed on the wire
WireIdle ==
    /\ wire_pc = "off"
    /\ wire_msg = WireMessage(NoneStr, 0, PText(<<>>))
    /\ wire_stream = <<>>
    /\ wire_result = NoResult

\* the runs explored: at most n inputs and faults, clients submitting `kinds`
Extent(n, kinds) ==
    /\ max_events = n
    /\ submit_kinds = kinds

\* the response of the API before any request
NoResponse == [request |-> <<"none", 0>>, status |-> 0, body |-> {}]

\* no request has reached the HTTP API
ApiIdle ==
    /\ http = NoResponse
    /\ admin_ops = 0
    /\ deleted_ids = {}
    /\ submittedAtDelete = [a \in Addrs |-> -1]

\* no GET /messages request is followed
QueryIdle ==
    /\ q_pc = "off"
    /\ q_users = <<>>
    /\ q_messages = <<>>
    /\ q_query = NoneStr
    /\ q_response = NoResponse

\* main is not followed
MainIdle ==
    /\ main_pc = "off"
    /\ chat_server_task = "not_spawned"
    /\ api_task = "not_spawned"
    /\ task_work = <<0, 0>>
    /\ main_log = <<>>

\* no client receiver is followed
ClientIdle ==
    /\ rx_pc = "off"
    /\ rx_key = FALSE
    /\ rx_stream = <<>>
    /\ rx_handled = <<>>
    /\ rx_errors = 0
    /\ rx_written = <<>>

\* nothing is written to the sink
SinkIdle ==
    /\ sink_pc = "off"
    /\ sink_todo = <<>>
    /\ sink_sent = <<>>
    /\ sink_stream = <<>>
    /\ sink_short = 0

\* start has bound its listener (line 24) and spawned the broadcaster
\* (lines 31-34), and no accept has failed
Listening ==
    /\ listener = "listening"
    /\ accept_errors = 0
    /\ broadcaster = "spawned"

\* the parts of the state a specification does not follow
RestIdle(followed) ==
    /\ IF followed = "sink" THEN TRUE ELSE SinkIdle
    /\ IF followed = "listen" THEN TRUE ELSE Listening
    /\ IF followed = "wire" THEN TRUE ELSE WireIdle
    /\ IF followed = "query" THEN TRUE ELSE QueryIdle
    /\ IF followed = "main" THEN TRUE ELSE MainIdle
    /\ IF followed = "client" THEN TRUE ELSE ClientIdle

Init == ChatInit /\ Extent(MaxEvents, SubmitKinds) /\ ApiIdle /\ RestIdle("chat")

\* ---------------------------------------------------------- session handler
bcVars == <<bcpc, cur, clients_to_remove, snap, written, consumed,
            messages_counter>>
dbVars == <<users, messages, next_uuid>>
ghostVars == <<submitted, nlogin, db_faults, othersAtSnapshot, joinNotices,
               authAtAccept, refused, ignored>>

\* the handler task of a returns: the scopeguard of start (lines 45-48) runs
HandlerEnds_sub_twice(a) ==
    /\ pc' = [pc EXCEPT ![a] = "done"]
    /\ active_connections' = active_connections - 2
HandlerEnds_no_sub(a) ==
    /\ pc' = [pc EXCEPT ![a] = "done"]
    /\ active_connections' = active_connections
HandlerEnds(a) ==
    /\ pc' = [pc EXCEPT ![a] = "done"]
    /\ active_connections' = active_connections - 1

\* Message::send_msg by the handler of a on its own socket, then go to `next`;
\* a failed write makes the handler return Err(SendMessage)
SendOwn(a, msg, next) ==
    \E ok \in WriteOutcomes(a) :
        IF ok
        THEN /\ out' = [out EXCEPT ![a] = Append(@, msg)]
             /\ pc' = [pc EXCEPT ![a] = next]
             /\ UNCHANGED active_connections
        ELSE /\ out' = out
             /\ HandlerEnds(a)

\* start, lines 37-52: accept, spawn the handler, ACTIVE_CONNECTIONS.inc()
Accept(a) ==
    /\ listener = "listening"
    /\ pc[a] = "idle"
    /\ \E i \in DOMAIN AcceptOrder :
          /\ AcceptOrder[i] = a
          /\ \A j \in 1..(i - 1) : pc[AcceptOrder[j]] # "idle"
    /\ Events < max_events
    /\ pc' = [pc EXCEPT ![a] = "auth"]
    /\ active_connections' = active_connections + 1
    /\ authAtAccept' = [authAtAccept EXCEPT ![a] = Authenticated]
    /\ UNCHANGED <<pending, current_user, clients_count, clients, lock, channel,
                   out, broken, submitted, nlogin, db_faults, othersAtSnapshot,
                   joinNotices, refused, ignored>>
    /\ UNCHANGED <<bcVars, dbVars>>
    /\ UNCHANGED otherVars

\* the peer closes or resets its connection, or sends bytes that do not decode
Disconnect(a) ==
    /\ pc[a] \notin {"idle", "done"}
    /\ a \notin broken
    /\ Events < max_events
    /\ broken' = broken \cup {a}
    /\ UNCHANGED <<pc, pending, current_user, clients_count, clients, lock,
                   channel, out, active_connections>>
    /\ UNCHANGED <<bcVars, dbVars, ghostVars>>
    /\ UNCHANGED otherVars

\* run_until_authenticated, lines 160-222: a Login frame arrives; get_user,
\* then the password check and the reply, or the start of registration
AuthLogin(a) ==
    /\ pc[a] = "auth"
    /\ a \notin broken
    /\ Events < max_events
    /\ nlogin' = nlogin + 1
    /\ \E login \in Logins, db_ok \in DbOutcomes(1) :
         LET name == login[1]
             password == login[2]
             auth_user == [name |-> name, password |-> password]
             row == users[name]
         IN /\ db_faults' = DbFaultAfter(db_ok)
            /\ pending' = [pending EXCEPT ![a] = auth_user]
            /\ refused' = IF db_ok /\ row # NoRow /\ row.password # password
                          THEN refused \cup {a} ELSE refused
            /\ IF db_ok /\ row = NoRow
               THEN \* line 226: try_into builds the user, insert_user is awaited
                    /\ pc' = [pc EXCEPT ![a] = "insert_user"]
                    /\ UNCHANGED <<out, current_user, active_connections>>
               ELSE IF db_ok /\ Verified(VerifyResult(row, password))
               THEN /\ current_user' = [current_user EXCEPT ![a] =
                                           [id |-> row.id, username |-> name]]
                    /\ SendOwn(a, Message_new("LoginResponse", AuthPayload_new_login),
                               AfterStep("auth"))
               ELSE /\ SendOwn(a, Message_new("LoginResponse", AuthPayload_new_error),
                               "auth")
                    /\ UNCHANGED current_user
    /\ UNCHANGED <<clients_count, clients, lock, channel, broken, submitted,
                   othersAtSnapshot, joinNotices, authAtAccept>>
    /\ UNCHANGED <<bcVars, dbVars>>
    /\ UNCHANGED otherVars

\* run_until_authenticated, line 171 with no else branch: a frame whose payload
\* is not Login is dropped and the loop reads the next frame
AuthIgnore(a) ==
    /\ pc[a] = "auth"
    /\ a \notin broken
    /\ Events < max_events
    /\ UNCHANGED <<pc, pending, current_user, clients_count, clients, lock,
                   channel, out, broken, active_connections>>
    /\ UNCHANGED <<submitted, nlogin, db_faults, othersAtSnapshot, joinNotices,
                   authAtAccept, refused>>
    /\ UNCHANGED <<bcVars, dbVars>>
    /\ UNCHANGED otherVars

\* run_until_authenticated, lines 160-205: one round of the loop on a frame
\* that decodes
AuthReceive(a) ==
    \E kind \in AuthKinds :
        /\ ignored' = IF kind = "Login" THEN ignored ELSE ignored + 1
        /\ IF IsLogin(kind) THEN AuthLogin(a) ELSE AuthIgnore(a)

\* run_until_authenticated, lines 162-168: receive_msg fails
AuthReceiveErr(a) ==
    /\ pc[a] = "auth"
    /\ a \in broken
    /\ HandlerEnds(a)
    /\ UNCHANGED <<pending, current_user, clients_count, clients, lock, channel,
                   out, broken>>
    /\ UNCHANGED <<bcVars, dbVars, ghostVars>>
    /\ UNCHANGED otherVars

\* verify_or_create_user, lines 228-229, and the reply of lines 175-203
InsertUser(a) ==
    /\ pc[a] = "insert_user"
    /\ LET auth_user == pending[a]
       IN \E db_ok \in DbOutcomes(0) :
            /\ db_faults' = DbFaultAfter(db_ok)
            /\ IF db_ok /\ users[auth_user.name] = NoRow
               THEN /\ users' = [users EXCEPT ![auth_user.name] =
                                    [id |-> next_uuid, password |-> auth_user.password]]
                    /\ next_uuid' = next_uuid + 1
                    /\ current_user' = [current_user EXCEPT ![a] =
                                           [id |-> next_uuid, username |-> auth_user.name]]
                    /\ SendOwn(a, Message_new("LoginResponse", AuthPayload_new_login),
                               AfterStep("auth"))
               ELSE \* backend error, or the unique constraint on username
                    /\ UNCHANGED <<users, next_uuid, current_user>>
                    /\ SendOwn(a, Message_new("LoginResponse", AuthPayload_new_error),
                               "auth")
    /\ UNCHANGED <<pending, clients_count, clients, lock, channel, broken,
                   messages, submitted, nlogin, othersAtSnapshot, joinNotices,
                   authAtAccept, refused, ignored>>
    /\ UNCHANGED bcVars
    /\ UNCHANGED otherVars

\* handle_connection, lines 74-80: clients.lock().await.len(), then the
\* welcome frame on the handler's own write half
CountAndWelcome(a) ==
    /\ pc[a] = "count"
    /\ LockAvailable(lock)
    /\ LET count == ClientsCount(clients)
       IN /\ clients_count' = [clients_count EXCEPT ![a] = count]
          /\ SendOwn(a, Message_new_server_msg(ActiveUsersText(count)),
                     AfterStep("count"))
    /\ othersAtSnapshot' = [othersAtSnapshot EXCEPT ![a] = Cardinality(clients \ {a})]
    /\ UNCHANGED clients
    /\ UNCHANGED <<pending, current_user, lock, channel, broken, submitted,
                   nlogin, db_faults, joinNotices, authAtAccept, refused, ignored>>
    /\ UNCHANGED <<bcVars, dbVars>>
    /\ UNCHANGED otherVars

\* handle_connection, line 82: clients.lock().await.insert(address, write_half)
Insert(a) ==
    /\ pc[a] = "insert"
    /\ LockAvailable(lock)
    /\ clients' = RegistryInsert(clients, a)
    /\ pc' = [pc EXCEPT ![a] = AfterStep("insert")]
    /\ UNCHANGED <<pending, current_user, clients_count, lock, channel, out,
                   broken, active_connections>>
    /\ UNCHANGED <<bcVars, dbVars, ghostVars>>
    /\ UNCHANGED otherVars

\* handle_connection, lines 85-89: the join notice
Notify(a) ==
    /\ pc[a] = "notify"
    /\ broadcaster = "spawned"
    /\ channel' = send_async(channel,
                     [addr |-> a, msg |-> JoinNotice(a, current_user[a].username)])
    /\ joinNotices' = [joinNotices EXCEPT ![a] = @ + 1]
    /\ pc' = [pc EXCEPT ![a] = AfterStep("notify")]
    /\ UNCHANGED <<pending, current_user, clients_count, clients, lock, out,
                   broken, active_connections, submitted, nlogin, db_faults,
                   othersAtSnapshot, authAtAccept, refused, ignored>>
    /\ UNCHANGED <<bcVars, dbVars>>
    /\ UNCHANGED otherVars

\* handle_connection, lines 92-102: one round of the receive loop, for a
\* frame of the given variant and sender field; db_ok is the result of
\* insert_message
ReceiveFrame(a, kind, sender, db_ok) ==
    /\ pc[a] = "recv"
    /\ broadcaster = "spawned"
    /\ a \notin broken
    /\ Events < max_events
    /\ LET message == Msg(sender, kind, PayloadArg(kind), a, submitted[a] + 1)
       IN /\ db_faults' = DbFaultAfter(db_ok)
          /\ messages' = IF db_ok
                         THEN Append(messages,
                                [user_id |-> current_user[a].id,
                                 data |-> serialize_to_text(message.kind, message.arg)])
                         ELSE messages
          /\ channel' = send_async(channel,
                           [addr |-> a,
                            msg |-> set_from_user(message, current_user[a].username)])
    /\ submitted' = [submitted EXCEPT ![a] = @ + 1]
    /\ UNCHANGED <<pc, pending, current_user, clients_count, clients, lock, out,
                   broken, active_connections, users, next_uuid, nlogin,
                   othersAtSnapshot, joinNotices, authAtAccept, refused, ignored>>
    /\ UNCHANGED bcVars
    /\ UNCHANGED otherVars

Receive(a) ==
    \E kind \in submit_kinds, sender \in ClientSenders, db_ok \in DbOutcomes(1) :
        ReceiveFrame(a, kind, sender, db_ok)

\* handle_connection, line 92: receive_msg fails, the loop ends
ReceiveErr(a) ==
    /\ pc[a] = "recv"
    /\ a \in broken
    /\ pc' = [pc EXCEPT ![a] = "remove"]
    /\ UNCHANGED <<pending, current_user, clients_count, clients, lock, channel,
                   out, broken, active_connections>>
    /\ UNCHANGED <<bcVars, dbVars, ghostVars>>
    /\ UNCHANGED otherVars

\* remove_client (lines 147-153), called by the handler of a after its receive
\* loop (line 105) and by the broadcaster for each marked address (line 142).
\* clients.lock().await completes only when no guard of the mutex is alive.
RemoveClient(caller) ==
    /\ LockAvailable(lock)
    /\ IF caller = Broadcaster
       THEN /\ bcpc = "remove_client"
            /\ \E ip_addr \in clients_to_remove :
                  /\ clients' = RegistryRemove(clients, ip_addr)
                  /\ clients_to_remove' = clients_to_remove \ {ip_addr}
                  /\ bcpc' = IF clients_to_remove' = {} THEN "recv" ELSE "remove_client"
            /\ UNCHANGED <<pc, active_connections>>
       ELSE /\ pc[caller] = "remove"
            /\ clients' = RegistryRemove(clients, caller)
            /\ HandlerEnds(caller)
            /\ UNCHANGED <<bcpc, clients_to_remove>>
    /\ UNCHANGED <<pending, current_user, clients_count, lock, channel, out,
                   broken, cur, snap, written, consumed, messages_counter>>
    /\ UNCHANGED <<dbVars, ghostVars>>
    /\ UNCHANGED otherVars

\* ------------------------------------------------------------- broadcaster
hVars == <<pc, pending, current_user, clients_count, broken, active_connections>>

\* broadcast_messages, lines 117-138: take the next tuple, MESSAGES_COUNTER.inc(),
\* take the guard clients_iter and send_msg to every entry the filter lets
\* through, one after the other; a failed write marks the entry.  Nothing else
\* touches the registry while the guard is held.
BcFanout ==
    /\ broadcaster = "spawned"
    /\ bcpc = "recv"
    /\ channel # <<>>
    /\ LockAvailable(lock)
    /\ cur' = Head(channel)
    /\ channel' = Tail(channel)
    /\ messages_counter' = MESSAGES_COUNTER_inc(messages_counter)
    /\ consumed' = consumed + 1
    /\ lock' = Broadcaster
    /\ snap' = clients
    /\ LET to == Recipients(clients, cur'.addr)
       IN /\ written' = [a \in Addrs |-> IF a \in to THEN 1 ELSE 0]
          /\ \E failed \in SUBSET (to \cap broken) :
               /\ clients_to_remove' = failed
               /\ out' = [a \in Addrs |->
                            IF a \in to \ failed THEN Append(out[a], cur'.msg)
                            ELSE out[a]]
    /\ bcpc' = "collected"
    /\ UNCHANGED clients
    /\ UNCHANGED <<hVars, dbVars, ghostVars>>
    /\ UNCHANGED otherVars

\* broadcast_messages, lines 137-144: the iteration is over.  With nothing to
\* remove the loop body ends and the guard clients_iter is dropped; otherwise
\* the for loop calls remove_client while clients_iter is still alive.
BcCollected ==
    /\ bcpc = "collected"
    /\ IF clients_to_remove = {}
       THEN /\ lock' = "free"
            /\ bcpc' = "recv"
            /\ cur' = NoTuple
            /\ snap' = {}
            /\ written' = [a \in Addrs |-> 0]
       ELSE /\ lock' = lock
            /\ bcpc' = "remove_client"
            /\ UNCHANGED <<cur, snap, written>>
    /\ UNCHANGED <<clients, channel, clients_to_remove, out, consumed,
                   messages_counter>>
    /\ UNCHANGED <<hVars, dbVars, ghostVars>>
    /\ UNCHANGED otherVars

\* -------------------------------------------------------------------- Next
Next ==
    \/ \E a \in Addrs : Accept(a)
    \/ \E a \in Addrs : Disconnect(a)
    \/ \E a \in Addrs : AuthReceive(a)
    \/ \E a \in Addrs : AuthReceiveErr(a)
    \/ \E a \in Addrs : InsertUser(a)
    \/ \E a \in Addrs : CountAndWelcome(a)
    \/ \E a \in Addrs : Insert(a)
    \/ \E a \in Addrs : Notify(a)
    \/ \E a \in Addrs : Receive(a)
    \/ \E a \in Addrs : ReceiveErr(a)
    \/ \E caller \in Addrs \cup {Broadcaster} : RemoveClient(caller)
    \/ BcFanout
    \/ BcCollected

Spec == Init /\ [][Next]_vars

\* ------------------------------------------- one frame sent and received
\* a Message is about to be handed to send_msg
WireInit ==
    /\ ChatInit
    /\ Extent(MaxEvents, SubmitKinds)
    /\ ApiIdle
    /\ RestIdle("wire")
    /\ wire_pc = "start"
    /\ wire_msg \in {WireMessage(sender, timestamp, data) :
                        sender \in WireSenders, timestamp \in WireTimestamps,
                        data \in WirePayloads}
    /\ wire_stream = <<>>
    /\ wire_result = NoResult

\* Message::send_msg: the frame is written to the stream
SendMsg ==
    /\ wire_pc = "start"
    /\ wire_stream' = Frame(wire_msg)
    /\ wire_pc' = "sent"
    /\ UNCHANGED <<wire_msg, wire_result>>
    /\ UNCHANGED exceptWire

\* the connection ends when only the first k bytes of the frame have reached
\* the reader
StreamEnds(k) ==
    /\ wire_pc = "sent"
    /\ k < Len(wire_stream)
    /\ wire_stream' = SubSeq(wire_stream, 1, k)
    /\ wire_pc' = "cut"
    /\ UNCHANGED <<wire_msg, wire_result>>
    /\ UNCHANGED exceptWire

\* Message::receive_msg on the reader's side
ReceiveMsg ==
    /\ wire_pc \in {"sent", "cut"}
    /\ wire_result' = receive_msg(wire_stream)
    /\ wire_pc' = "received"
    /\ UNCHANGED <<wire_msg, wire_stream>>
    /\ UNCHANGED exceptWire

WireNext ==
    \/ SendMsg
    \/ \E k \in 0..MaxFrameLen : StreamEnds(k)
    \/ ReceiveMsg

WireSpec == WireInit /\ [][WireNext]_vars

\* ------------------------------------------- the broadcaster is scheduled
\* The broadcaster task is polled whenever it can go on: recv_async completes
\* when the channel holds a tuple, and tokio's mutex hands the lock over in
\* the order it was asked for.
FairInit ==
    /\ ChatInit
    /\ Extent(FairEvents, SubmitKinds)
    /\ ApiIdle
    /\ RestIdle("chat")

FairSpec ==
    FairInit /\ [][Next]_vars /\ WF_vars(BcFanout) /\ WF_vars(BcCollected)

\* --------------------------------------------------------- the listener
\* start before line 24: nothing is bound, no task has been spawned
ListenInit ==
    /\ ChatInit
    /\ Extent(ListenEvents, SubmitKinds)
    /\ ApiIdle
    /\ RestIdle("listen")
    /\ listener = "unbound"
    /\ accept_errors = 0
    /\ broadcaster = "none"

\* lines 24-34: bind succeeds, the channel and the registry are made and
\* broadcast_messages is spawned
Bind ==
    /\ listener = "unbound"
    /\ listener' = "listening"
    /\ broadcaster' = "spawned"
    /\ UNCHANGED accept_errors
    /\ UNCHANGED exceptListen

\* line 24: bind fails, `?` returns ServerError::Bind from start
BindFails ==
    /\ listener = "unbound"
    /\ listener' = "Err(Bind)"
    /\ UNCHANGED <<accept_errors, broadcaster>>
    /\ UNCHANGED exceptListen

\* line 54: the Err arm of the match on accept logs and falls through to the
\* next turn of the loop
accept_error_stops(l) == "stopped"
accept_error_arm(l) == l

\* lines 37, 54: accept returns an error
AcceptErr ==
    /\ listener = "listening"
    /\ accept_errors < MaxAcceptErrors
    /\ accept_errors' = accept_errors + 1
    /\ listener' = accept_error_arm(listener)
    /\ UNCHANGED broadcaster
    /\ UNCHANGED exceptListen

ListenNext ==
    \/ Bind
    \/ BindFails
    \/ AcceptErr
    \/ Next

ListenSpec == ListenInit /\ [][ListenNext]_vars

\* ------------------------------------------------- the runtime shuts down
\* main returns when the API task ends first (main.rs lines 24-30) and the
\* runtime drops its tasks where they wait; a handler that is running on
\* another worker goes on to its next await. The broadcaster waits in
\* recv_stream.next() (startup.rs line 117); dropping it drops the receiver.
BroadcasterDropped ==
    /\ broadcaster = "spawned"
    /\ bcpc = "recv"
    /\ broadcaster' = "dropped"
    /\ UNCHANGED <<listener, accept_errors>>
    /\ UNCHANGED exceptListen

\* startup.rs lines 85-89: send_async fails on a channel without a receiver
\* and `?` returns ServerError::ChannelSend from handle_connection
NotifyErr(a) ==
    /\ pc[a] = "notify"
    /\ broadcaster = "dropped"
    /\ HandlerEnds(a)
    /\ UNCHANGED <<pending, current_user, clients_count, clients, lock, channel,
                   out, broken>>
    /\ UNCHANGED <<bcVars, dbVars, ghostVars>>
    /\ UNCHANGED otherVars

\* startup.rs lines 92-101: a frame is received and stored, send_async fails
\* and `?` returns ServerError::ChannelSend from handle_connection
RelayErr(a) ==
    /\ pc[a] = "recv"
    /\ broadcaster = "dropped"
    /\ a \notin broken
    /\ Events < max_events
    /\ \E kind \in submit_kinds, sender \in ClientSenders, db_ok \in DbOutcomes(1) :
          LET message == Msg(sender, kind, PayloadArg(kind), a, submitted[a] + 1)
          IN /\ db_faults' = DbFaultAfter(db_ok)
             /\ messages' = IF db_ok
                            THEN Append(messages,
                                   [user_id |-> current_user[a].id,
                                    data |-> serialize_to_text(message.kind, message.arg)])
                            ELSE messages
    /\ submitted' = [submitted EXCEPT ![a] = @ + 1]
    /\ HandlerEnds(a)
    /\ UNCHANGED <<pending, current_user, clients_count, clients, lock, channel,
                   out, broken, users, next_uuid, nlogin, othersAtSnapshot,
                   joinNotices, authAtAccept, refused, ignored>>
    /\ UNCHANGED bcVars
    /\ UNCHANGED otherVars

ShutdownInit ==
    /\ ChatInit
    /\ Extent(ShutdownEvents, SubmitKinds)
    /\ ApiIdle
    /\ RestIdle("chat")

ShutdownNext ==
    \/ Next
    \/ BroadcasterDropped
    \/ \E a \in Addrs : NotifyErr(a)
    \/ \E a \in Addrs : RelayErr(a)

ShutdownSpec == ShutdownInit /\ [][ShutdownNext]_vars

\* ------------------------------------------- frames written to one sink
\* the sequences over S of length at most n
RECURSIVE SeqsUpTo(_, _)
SeqsUpTo(S, n) ==
    IF n = 0 THEN {<<>>}
    ELSE LET shorter == SeqsUpTo(S, n - 1)
         IN shorter \cup {Append(q, x) : q \in shorter, x \in S}

\* the Messages handed to send_msg
SinkMessages ==
    {WireMessage(NoneStr, 0, PText(<<104, 105>>)),
     WireMessage(SomeStr(<<97>>), 1, PImage(<<0, 255>>)),
     WireMessage(NoneStr, -1, PLoginResponse(AuthPayload_new_error))}

\* AsyncWriteExt::write of n bytes: the sink accepts between 1 and n of them
\* and tells how many; send_msg drops that count (`_ =`, line 59)
WriteAccepts(n) == 1..n

SinkInit ==
    /\ ChatInit
    /\ Extent(MaxEvents, SubmitKinds)
    /\ ApiIdle
    /\ RestIdle("sink")
    /\ sink_pc = "length"
    /\ sink_todo \in SeqsUpTo(SinkMessages, MaxSinkFrames) \ {<<>>}
    /\ sink_sent = <<>>
    /\ sink_stream = <<>>
    /\ sink_short = 0

\* send_msg, lines 56-62: serialize, then one call of write with the four
\* length bytes
WriteLength ==
    /\ sink_pc = "length"
    /\ sink_todo # <<>>
    /\ LET length == BE32(Len(serialize(Head(sink_todo))))
       IN \E k \in WriteAccepts(Len(length)) :
             /\ sink_stream' = sink_stream \o SubSeq(length, 1, k)
             /\ sink_short' = IF k < Len(length) THEN sink_short + 1 ELSE sink_short
    /\ sink_pc' = "body"
    /\ UNCHANGED <<sink_todo, sink_sent>>
    /\ UNCHANGED exceptSink

\* send_msg, lines 64-68: write_all writes the whole body, calling write until
\* nothing is left, and send_msg returns Ok
WriteBody ==
    /\ sink_pc = "body"
    /\ sink_stream' = sink_stream \o serialize(Head(sink_todo))
    /\ sink_sent' = Append(sink_sent, Head(sink_todo))
    /\ sink_todo' = Tail(sink_todo)
    /\ sink_pc' = "length"
    /\ UNCHANGED sink_short
    /\ UNCHANGED exceptSink

SinkNext == WriteLength \/ WriteBody

SinkSpec == SinkInit /\ [][SinkNext]_vars

\* receive_msg called on the stream until it is used up or a call fails: the
\* results, in order
RECURSIVE ReceiveAll(_)
ReceiveAll(stream) ==
    IF stream = <<>> THEN <<>>
    ELSE LET result == receive_msg(stream)
         IN IF ~result.ok THEN <<result>>
            ELSE LET read == 4 + FromBE32(SubSeq(stream, 1, 4))
                 IN <<result>> \o ReceiveAll(SubSeq(stream, read + 1, Len(stream)))

\* ------------------------------------------------------------ the HTTP API
\* ids a DELETE request may name
RequestIds == {1, 2}

\* ChatPostgresDb::remove_user: DELETE from users where id = $1
remove_user(table, id) ==
    [n \in Names |-> IF table[n] # NoRow /\ table[n].id = id THEN NoRow
                     ELSE table[n]]
\* rows_affected of that statement
rows_affected(table, id) ==
    Cardinality({n \in Names : table[n] # NoRow /\ table[n].id = id})

\* ChatPostgresDb::get_users: SELECT id, username FROM users
get_users(table) ==
    {[id |-> table[n].id, username |-> n] : n \in {m \in Names : table[m] # NoRow}}

\* delete_user, api.rs lines 131-134: the status for Ok(number)
DeleteStatus_always_204(number) == 204
DeleteStatus(number) == IF number = 1 THEN 204 ELSE 404

\* delete_user: what the request does to the database and the response.  The
\* schema is not part of the sources: the messages of the deleted user stay,
\* or go with the row (ON DELETE CASCADE); a constraint that refuses the
\* delete is a backend error.
DeleteUserRequest(id) ==
    /\ Events < max_events
    /\ admin_ops' = admin_ops + 1
    /\ \E db_ok \in DbOutcomes(1), cascade \in BOOLEAN :
         LET number == rows_affected(users, id)
             status == IF db_ok THEN DeleteStatus(number) ELSE 500
         IN /\ db_faults' = DbFaultAfter(db_ok)
            /\ users' = IF db_ok THEN remove_user(users, id) ELSE users
            /\ messages' = IF db_ok /\ cascade
                           THEN SelectSeq(messages, LAMBDA r : r.user_id # id)
                           ELSE messages
            /\ http' = [request |-> <<"DELETE /user", id>>, status |-> status,
                        body |-> {}]
            /\ deleted_ids' = IF status = 204 THEN deleted_ids \cup {id}
                              ELSE deleted_ids
            /\ submittedAtDelete' =
                  [a \in Addrs |->
                      IF db_ok /\ number = 1 /\ current_user[a].id = id
                      THEN submitted[a] ELSE submittedAtDelete[a]]
    /\ UNCHANGED <<next_uuid, submitted, nlogin, othersAtSnapshot, joinNotices,
                   authAtAccept, refused, ignored>>
    /\ UNCHANGED exceptApi

\* the sessions are no part of the API's application data (api.rs line 48:
\* only the database pool)
DeleteUser_closes_sessions(id) ==
    /\ DeleteUserRequest(id)
    /\ clients' = clients \ {a \in Addrs : current_user[a].id = id}
    /\ UNCHANGED <<pc, pending, current_user, clients_count, lock, channel,
                   out, broken, active_connections>>
    /\ UNCHANGED bcVars
DeleteUser(id) ==
    /\ DeleteUserRequest(id)
    /\ UNCHANGED <<pc, pending, current_user, clients_count, clients, lock,
                   channel, out, broken, active_connections>>
    /\ UNCHANGED bcVars

\* get_users, api.rs lines 103-123 (a list of UserApiDto always serializes)
GetUsers ==
    /\ Events < max_events
    /\ admin_ops' = admin_ops + 1
    /\ \E db_ok \in DbOutcomes(1) :
         /\ db_faults' = DbFaultAfter(db_ok)
         /\ http' = [request |-> <<"GET /users", 0>>,
                     status |-> IF db_ok THEN 200 ELSE 500,
                     body |-> IF db_ok THEN get_users(users) ELSE {}]
    /\ UNCHANGED <<pc, pending, current_user, clients_count, clients, lock,
                   channel, out, broken, active_connections>>
    /\ UNCHANGED <<bcVars, dbVars>>
    /\ UNCHANGED <<submitted, nlogin, othersAtSnapshot, joinNotices,
                   authAtAccept, refused, ignored>>
    /\ UNCHANGED <<deleted_ids, submittedAtDelete>>
    /\ UNCHANGED exceptApi

\* the chat server and the API, two tasks over one database (main.rs)
AdminNext ==
    \/ Next
    \/ \E id \in RequestIds : DeleteUser(id)
    \/ GetUsers

AdminSpec == Init /\ [][AdminNext]_vars

\* ------------------------------------------------------- GET /messages
\* Usernames and query strings are sequences of characters here, so that the
\* pattern match can be followed character by character.
QueryUsers == (<<"a", "l">> :> 1) @@ (<<"b", "o">> :> 2)
\* values of the username parameter: absent, or given
QueryPrefixes == {<<>>, <<"a">>, <<"a", "l">>, <<"b">>, <<"z">>, <<"a", "l", "x">>,
                  <<"_">>, <<"%", "o">>, <<"l">>}
\* sizes of the messages table
TableSizes == {0, 1, 3, 50, 51, 52}
\* the table's rows: who wrote them, and whether timestamps repeat
\* (Utc::now() of two inserts may coincide)
Authorships == {"one", "both"}
MessagesTable(n, authorship, repeat) ==
    [i \in 1..n |->
        [id |-> i,
         user_id |-> IF authorship = "one" THEN 1 ELSE 1 + (i % 2),
         text |-> "hi",
         timestamp |-> IF repeat THEN (i + 1) \div 2 ELSE i]]

\* LIMIT 50 of the query
MessagesLimit == 50

\* SQL LIKE: % matches any sequence of characters, _ any one character, and
\* a backslash takes the next character of the pattern literally
RECURSIVE Like(_, _)
Like(str, pattern) ==
    IF pattern = <<>> THEN str = <<>>
    ELSE IF Head(pattern) = "%"
         THEN \/ Like(str, Tail(pattern))
              \/ str # <<>> /\ Like(Tail(str), pattern)
    ELSE IF Head(pattern) = "_"
         THEN str # <<>> /\ Like(Tail(str), Tail(pattern))
    ELSE IF Head(pattern) = "\\" /\ Len(pattern) > 1
         THEN /\ str # <<>>
              /\ Head(str) = pattern[2]
              /\ Like(Tail(str), Tail(Tail(pattern)))
    ELSE /\ str # <<>>
         /\ Head(str) = Head(pattern)
         /\ Like(Tail(str), Tail(pattern))

\* INNER JOIN users u on u.id = m.user_id WHERE ($1 = '') OR u.username like $2
JoinWhere(table, user_table, username, pattern) ==
    {[id |-> table[i].id, username |-> n, text |-> table[i].text,
      timestamp |-> table[i].timestamp] :
        <<i, n>> \in {<<j, m>> \in (DOMAIN table) \X (DOMAIN user_table) :
                        /\ user_table[m] = table[j].user_id
                        /\ (username = <<>> \/ Like(m, pattern))}}

\* ORDER BY m.timestamp DESC: rows with equal timestamps come in an order the
\* database chooses, here by ascending or by descending id
Before(r1, r2, tie) ==
    \/ r1.timestamp > r2.timestamp
    \/ r1.timestamp = r2.timestamp
         /\ IF tie = "asc" THEN r1.id < r2.id ELSE r1.id > r2.id
RECURSIVE OrderByLimit(_, _, _)
OrderByLimit(rows, tie, limit) ==
    IF rows = {} \/ limit = 0 THEN <<>>
    ELSE LET first == CHOOSE r \in rows : \A o \in rows \ {r} : Before(r, o, tie)
         IN <<first>> \o OrderByLimit(rows \ {first}, tie, limit - 1)

\* ChatPostgresDb::get_messages
get_messages(table, user_table, username, tie) ==
    LET pattern == username \o <<"%">>
    IN OrderByLimit(JoinWhere(table, user_table, username, pattern), tie,
                    MessagesLimit)

\* query.username.as_deref().unwrap_or("")
UsernameParam(query) == IF query.some THEN query.val ELSE <<>>

\* a request GET /messages arrives at a server with some users and messages
QueryInit ==
    /\ ChatInit
    /\ Extent(MaxEvents, SubmitKinds)
    /\ ApiIdle
    /\ RestIdle("query")
    /\ q_pc = "request"
    /\ q_users = QueryUsers
    /\ q_messages \in {MessagesTable(n, authorship, repeat) :
                          n \in TableSizes, authorship \in Authorships,
                          repeat \in BOOLEAN}
    /\ q_query \in {NoneStr} \cup {SomeStr(prefix) : prefix \in QueryPrefixes}
    /\ q_response = NoResponse

\* get_messages, api.rs lines 78-101 (a list of MessageInfo always serializes)
GetMessages ==
    /\ q_pc = "request"
    /\ \E db_ok \in BOOLEAN, tie \in {"asc", "desc"} :
         q_response' =
            IF db_ok
            THEN [request |-> <<"GET /messages", 0>>, status |-> 200,
                  body |-> get_messages(q_messages, q_users,
                                        UsernameParam(q_query), tie)]
            ELSE [request |-> <<"GET /messages", 0>>, status |-> 500,
                  body |-> <<>>]
    /\ q_pc' = "done"
    /\ UNCHANGED <<q_users, q_messages, q_query>>
    /\ UNCHANGED exceptQuery

QueryNext == GetMessages

QuerySpec == QueryInit /\ [][QueryNext]_vars

\* -------------------------------------- clients submitting every variant
\* the chat server with clients that submit frames of all six variants
PersistInit ==
    /\ ChatInit
    /\ Extent(PersistEvents, PayloadKinds)
    /\ ApiIdle
    /\ RestIdle("chat")

PersistSpec == PersistInit /\ [][Next]_vars

\* ------------------------------------- a user row that does not decode
\* the server starts on a database where the row of alice holds a salt or a
\* password hash that is not base64 (written by something else than
\* insert_user)
CorruptInit ==
    /\ \E stored \in {CorruptSalt, CorruptHash} :
          ChatStart([n \in Names |-> IF n = "alice"
                                     THEN [id |-> 1, password |-> stored]
                                     ELSE NoRow], 2)
    /\ Extent(CorruptEvents, SubmitKinds)
    /\ ApiIdle
    /\ RestIdle("chat")

CorruptSpec == CorruptInit /\ [][Next]_vars

\* ------------------------------------------------------------ the process
\* the two tasks main spawns, by the name log_exit is given
Tasks == {"Chat server", "Api"}
TaskIndex(t) == IF t = "Chat server" THEN 1 ELSE 2
\* what awaiting a JoinHandle gives: the task returned Ok(()), returned an
\* error, or panicked
TaskOutcomes == {"Ok(Ok(()))", "Ok(Err(e))", "Err(JoinError)"}
\* start returns only the error of bind, its accept loop has no exit
\* (startup.rs lines 24, 36-56); the HTTP server may also stop with Ok(())
OutcomesOf(t) == IF t = "Chat server" THEN TaskOutcomes \ {"Ok(Ok(()))"}
                 ELSE TaskOutcomes
TaskState(t) == IF t = "Chat server" THEN chat_server_task ELSE api_task
Terminated(state) == state \in TaskOutcomes

\* log_exit: the line logged for a task's outcome
log_exit(name, result) ==
    <<name, CASE result = "Ok(Ok(()))" -> "has exited"
              [] result = "Ok(Err(e))" -> "failed"
              [] result = "Err(JoinError)" -> "task failed to complete">>

\* tokio::select! over the two JoinHandles: ready when one of them is
SelectReady_both(chat, api) == Terminated(chat) /\ Terminated(api)
SelectReady(chat, api) == Terminated(chat) \/ Terminated(api)

MainInit ==
    /\ ChatInit
    /\ Extent(MaxEvents, SubmitKinds)
    /\ ApiIdle
    /\ RestIdle("main")
    /\ main_pc = "setup"
    /\ chat_server_task = "not_spawned"
    /\ api_task = "not_spawned"
    /\ task_work = <<0, 0>>
    /\ main_log = <<>>

\* main, lines 11-22: tracing, configuration or Api::build fails; main returns
\* (or panics) before any task is spawned
SetupFails ==
    /\ main_pc = "setup"
    /\ \E reason \in {"init_subscriber", "get_configuration", "Api::build"} :
          main_log' = <<"main", reason>>
    /\ main_pc' = "exited"
    /\ UNCHANGED <<chat_server_task, api_task, task_work>>
    /\ UNCHANGED exceptMain

\* main, lines 24-25: both tasks are spawned
Spawn ==
    /\ main_pc = "setup"
    /\ main_pc' = "select"
    /\ api_task' = "running"
    /\ chat_server_task' = "running"
    /\ UNCHANGED <<task_work, main_log>>
    /\ UNCHANGED exceptMain

\* a running task serves a connection or a request
TaskWorks(t) ==
    /\ main_pc = "select"
    /\ TaskState(t) = "running"
    /\ task_work[TaskIndex(t)] < MaxWork
    /\ task_work' = [task_work EXCEPT ![TaskIndex(t)] = @ + 1]
    /\ UNCHANGED <<main_pc, chat_server_task, api_task, main_log>>
    /\ UNCHANGED exceptMain

\* a running task returns or panics
TaskEnds(t) ==
    /\ main_pc = "select"
    /\ TaskState(t) = "running"
    /\ \E outcome \in OutcomesOf(t) :
          /\ chat_server_task' = IF t = "Chat server" THEN outcome
                                 ELSE chat_server_task
          /\ api_task' = IF t = "Api" THEN outcome ELSE api_task
    /\ UNCHANGED <<main_pc, task_work, main_log>>
    /\ UNCHANGED exceptMain

\* main, lines 27-31: the select takes the branch of a finished task, log_exit
\* runs and main returns; the runtime is dropped with the other task in it
SelectExit(t) ==
    /\ main_pc = "select"
    /\ SelectReady(chat_server_task, api_task)
    /\ Terminated(TaskState(t))
    /\ main_log' = log_exit(t, TaskState(t))
    /\ main_pc' = "exited"
    /\ chat_server_task' = IF chat_server_task = "running" THEN "dropped"
                           ELSE chat_server_task
    /\ api_task' = IF api_task = "running" THEN "dropped" ELSE api_task
    /\ UNCHANGED task_work
    /\ UNCHANGED exceptMain

MainNext ==
    \/ SetupFails
    \/ Spawn
    \/ \E t \in Tasks : TaskWorks(t)
    \/ \E t \in Tasks : TaskEnds(t)
    \/ \E t \in Tasks : SelectExit(t)

\* main is woken when a JoinHandle it selects on completes
MainSpec ==
    MainInit /\ [][MainNext]_vars /\ WF_vars(\E t \in Tasks : SelectExit(t))

\* --------------------------------------------------- the client receiver
\* What a read of the stream returns: a frame, or a receive error for bytes
\* that are no frame.  A Text frame carries one of: the base64 of a nonce and
\* a ciphertext under the receiver's key ("encrypted"), the same under
\* another key ("other key"), text that is not base64 ("plain"), or text that
\* is the base64 of fewer than NONCE_SIZE bytes, such as "" or "test"
\* ("short").
TextClasses == {"encrypted", "other key", "plain", "short"}
Item(kind, text) == [kind |-> kind, text |-> text]
StreamItems ==
    {Item("Text", c) : c \in TextClasses}
        \cup {Item(k, "-") : k \in {"Image", "File", "ServerInfo", "malformed"}}

\* decrypt_payload, encryption.rs lines 62-83: a payload that is not Text is
\* returned as it is; base64 that does not decode and a failed decryption
\* are errors; `&decoded[..NONCE_SIZE]` panics on fewer than NONCE_SIZE bytes
decrypt_payload(item) ==
    IF item.kind # "Text" THEN "Ok"
    ELSE CASE item.text = "encrypted" -> "Ok"
           [] item.text = "other key" -> "Err"
           [] item.text = "plain" -> "Err"
           [] item.text = "short" -> "panic"

\* ClientReceiver::handle_message: what is written to the writer and what is
\* returned; io_ok tells whether write_to_output and save_file succeed
handle_message(item, key, io_ok) ==
    LET decrypted == IF key THEN decrypt_payload(item) ELSE "Ok"
    IN IF decrypted = "panic" THEN [result |-> "panic", written |-> <<>>]
       ELSE IF ~io_ok THEN [result |-> "Err", written |-> <<>>]
       ELSE IF decrypted = "Err"
            THEN [result |-> "Ok", written |-> <<"Unable to decrypt message">>]
       ELSE [result |-> "Ok",
             written |-> CASE item.kind = "Image" -> <<"message", "Image saved to">>
                           [] item.kind = "File" -> <<"message", "File saved to">>
                           [] OTHER -> <<"message">>]

\* the next read of the stream
NextItem ==
    IF Len(rx_handled) < Len(rx_stream) THEN rx_stream[Len(rx_handled) + 1]
    ELSE Item("closed", "-")

ClientInit ==
    /\ ChatInit
    /\ Extent(MaxEvents, SubmitKinds)
    /\ ApiIdle
    /\ RestIdle("client")
    /\ rx_pc = "receive"
    /\ rx_key \in BOOLEAN
    /\ rx_stream \in SeqsUpTo(StreamItems, MaxStream)
    /\ rx_handled = <<>>
    /\ rx_errors = 0
    /\ rx_written = <<>>

\* ClientReceiver::start, lines 183-194: receive_msg returns a frame and
\* handle_message is called with it; its error is logged
HandleFrame ==
    /\ rx_pc = "receive"
    /\ NextItem.kind \notin {"malformed", "closed"}
    /\ \E io_ok \in BOOLEAN :
          LET handled == handle_message(NextItem, rx_key, io_ok)
          IN /\ rx_handled' = Append(rx_handled, NextItem)
             /\ rx_written' = rx_written \o handled.written
             /\ rx_errors' = IF handled.result = "Err" THEN rx_errors + 1
                             ELSE rx_errors
             /\ rx_pc' = IF handled.result = "panic" THEN "panicked"
                         ELSE "receive"
    /\ UNCHANGED <<rx_key, rx_stream>>
    /\ UNCHANGED exceptClient

\* ClientReceiver::start, lines 183 and 196-198: receive_msg fails, the loop
\* ends and start returns Ok(())
ReceiveFails ==
    /\ rx_pc = "receive"
    /\ NextItem.kind \in {"malformed", "closed"}
    /\ rx_pc' = "Ok(())"
    /\ UNCHANGED <<rx_key, rx_stream, rx_handled, rx_errors, rx_written>>
    /\ UNCHANGED exceptClient

ClientNext == HandleFrame \/ ReceiveFails

ClientSpec == ClientInit /\ [][ClientNext]_vars

TypeOK == lock \in {"free", Broadcaster}

\* ------------------------------------------------------ reading the frames
IsRelayed(m) == m.seq > 0
IsJoinNoticeOf(m, a) == m.seq = 0 /\ m.src = a
IsBroadcast(m) == m.src \in Addrs
IsLoginResponse(m, is_ok) ==
    m.src = Server /\ m.kind = "LoginResponse" /\ m.arg.is_ok = is_ok
IsWelcome(m) ==
    m.src = Server /\ m.kind = "ServerInfo" /\ m.arg[1] = "Active users: "
\* two frames are the same frame: same session, same submission
SameFrame(m1, m2) == m1.src = m2.src /\ m1.seq = m2.seq
\* how often the frame m occurs among the frames written to q
Copies(q, m) == Cardinality({i \in DOMAIN out[q] : SameFrame(out[q][i], m)})
\* the handler of a has written its welcome frame
Welcomed(a) == \E i \in DOMAIN out[a] : IsWelcome(out[a][i])
\* the submission indices of the frames of session a written to b, in order
RECURSIVE SeqsFrom(_, _)
SeqsFrom(a, frames) ==
    IF frames = <<>> THEN <<>>
    ELSE IF Head(frames).src = a /\ IsRelayed(Head(frames))
         THEN <<Head(frames).seq>> \o SeqsFrom(a, Tail(frames))
         ELSE SeqsFrom(a, Tail(frames))

\* ------------------------------------------------------------------ claims

\* C1: for the tuple (sender_addr, M) being fanned out, send_msg has been
\* called exactly once for each peer that was in the registry when the guard
\* was taken and whose address differs from sender_addr, and not at all for
\* any other peer; where the write succeeded M is the last frame on that
\* peer's socket and occurs there once, and M is on no other peer's socket
\* by this fan-out, in particular never on the sender's.
C1_FanoutExcludesSender ==
    bcpc \in {"collected", "remove_client"} =>
        \A q \in Addrs :
            IF q \in snap /\ q # cur.addr
            THEN /\ written[q] = 1
                 /\ q \notin clients_to_remove =>
                        /\ out[q] # <<>>
                        /\ SameFrame(out[q][Len(out[q])], cur.msg)
                        /\ Copies(q, cur.msg) = 1
            ELSE /\ written[q] = 0
                 /\ q = cur.addr => Copies(q, cur.msg) = 0

\* C1 witness: a tuple has been written to two peers, none of them its sender
C1_Witness ==
    /\ bcpc = "collected"
    /\ Cardinality(snap \ {cur.addr}) = 2
    /\ cur.addr \in snap
    /\ clients_to_remove = {}

\* C2: every relayed frame on any peer's socket carries the username its
\* submitting session authenticated as; every frame the server built itself
\* (LoginResponse, welcome, join notice) carries no sender.
C2_SenderStamped ==
    \A q \in Addrs : \A i \in DOMAIN out[q] :
        LET m == out[q][i]
        IN IF IsRelayed(m)
           THEN m.sender = current_user[m.src].username
           ELSE m.sender = None

\* C2 witness: a peer holds a frame relayed from a session of alice, whose
\* client put either no sender or "bob" into it, next to server-built frames
C2_Witness ==
    \E q \in Addrs : \E i \in DOMAIN out[q] :
        /\ IsRelayed(out[q][i])
        /\ current_user[out[q][i].src].username = "alice"
        /\ \E j \in DOMAIN out[q] : IsJoinNoticeOf(out[q][j], out[q][i].src)

\* C3: on every peer's socket, the frames relayed from one session appear in
\* the order that session submitted them.
C3_PerSenderFifo ==
    \A q \in Addrs : \A i, j \in DOMAIN out[q] :
        (/\ i < j
         /\ IsRelayed(out[q][i])
         /\ IsRelayed(out[q][j])
         /\ out[q][i].src = out[q][j].src)
        => out[q][i].seq < out[q][j].seq

\* C3 witness: a peer has received two frames of the same session
C3_Witness ==
    \E q \in Addrs : \E i, j \in DOMAIN out[q] :
        /\ i < j
        /\ IsRelayed(out[q][i])
        /\ IsRelayed(out[q][j])
        /\ out[q][i].src = out[q][j].src

\* C4 (as claimed): when a broadcast write has failed, the broadcaster can
\* carry out remove_client for the marked address under the handling of the
\* same tuple, after which the guard is released and the next tuple is taken.
C4_FailedWriteIsRemoved ==
    bcpc = "remove_client" => ENABLED RemoveClient(Broadcaster)

\* C5 (as claimed): a failure on one peer leaves the others running: a tuple
\* waiting in the channel can be consumed, and a handler waiting to read,
\* insert into or remove from the registry can get the mutex, either at once
\* or after a step the broadcaster is able to take.
C5_FailureIsIsolated ==
    LET bcCanStep == \/ ENABLED BcFanout
                     \/ ENABLED BcCollected
                     \/ ENABLED RemoveClient(Broadcaster)
    IN /\ channel # <<>> => bcCanStep
       /\ \A a \in Addrs :
              pc[a] \in {"count", "insert", "remove"} => (lock = "free" \/ bcCanStep)

C7_FirstFrameIsWelcome ==
    \A a \in Addrs :
        out[a] # <<>> =>
            /\ IsWelcome(out[a][1])
            /\ out[a][1].arg[2] = othersAtSnapshot[a]

\* C7 (amended): the frame that follows the LoginResponse with is_ok = true
\* on P's socket is ServerInfo("Active users: N"), where N is the number of
\* entries the registry held when P's handler read its size, none of them P.
C7_WelcomeFollowsLoginResponse ==
    \A a \in Addrs : \A i \in DOMAIN out[a] :
        /\ IsLoginResponse(out[a][i], TRUE) /\ pc[a] \in {"insert", "notify", "recv", "remove"}
               => i + 1 \in DOMAIN out[a]
        /\ IsLoginResponse(out[a][i], TRUE) /\ i + 1 \in DOMAIN out[a]
               => /\ IsWelcome(out[a][i + 1])
                  /\ out[a][i + 1].arg[2] = othersAtSnapshot[a]
        /\ IsWelcome(out[a][i])
               => /\ i > 1
                  /\ IsLoginResponse(out[a][i - 1], TRUE)

\* C7 witness: a peer has been welcomed with N = 2
C7_Witness ==
    \E a \in Addrs : \E i \in DOMAIN out[a] :
        IsWelcome(out[a][i]) /\ out[a][i].arg[2] = 2

\* C8: on the socket of a peer P the frames appear in this order: the
\* LoginResponses with is_ok = false of failed attempts, the LoginResponse
\* with is_ok = true, ServerInfo("Active users: N"), then frames of the
\* broadcaster; no frame of the broadcaster precedes the welcome frame.
C8_LoginWelcomeThenBroadcasts ==
    \A a \in Addrs : \A i \in DOMAIN out[a] :
        LET m == out[a][i]
        IN /\ IsBroadcast(m) =>
                  \E k \in 1..(i - 1) :
                      /\ IsWelcome(out[a][k])
                      /\ k > 1 /\ IsLoginResponse(out[a][k - 1], TRUE)
                      /\ \A j \in (k + 1)..i : IsBroadcast(out[a][j])
           /\ IsWelcome(m) => \A j \in 1..(i - 2) : IsLoginResponse(out[a][j], FALSE)
           /\ IsLoginResponse(m, TRUE) => \A j \in 1..(i - 1) : IsLoginResponse(out[a][j], FALSE)

\* C8 witness: a peer was refused once, then logged in, was welcomed and has
\* received a frame of the broadcaster
C8_Witness ==
    \E a \in Addrs :
        /\ Len(out[a]) >= 4
        /\ IsLoginResponse(out[a][1], FALSE)
        /\ IsLoginResponse(out[a][2], TRUE)
        /\ IsWelcome(out[a][3])
        /\ IsBroadcast(out[a][4])

\* C9: a session enqueues at most one join notice, and exactly one once it is
\* in its receive loop; the tuple is tagged with the session's own address;
\* it is on no socket of that session; and at the step that enqueues it the
\* session's address is already in the registry.
C9_JoinNoticeState ==
    /\ \A a \in Addrs :
          /\ joinNotices[a] <= 1
          /\ pc[a] \in {"recv", "remove"} => joinNotices[a] = 1
          /\ pc[a] \in {"idle", "auth", "insert_user", "count", "insert"} => joinNotices[a] = 0
          /\ \A i \in DOMAIN out[a] : ~IsJoinNoticeOf(out[a][i], a)
    /\ \A i \in DOMAIN channel :
          channel[i].msg.seq = 0 =>
              /\ channel[i].addr = channel[i].msg.src
              /\ channel[i].msg.kind = "ServerInfo"
              /\ channel[i].msg.arg = NewUserText(current_user[channel[i].addr].username)
C9_JoinNoticeStep ==
    \A a \in Addrs : joinNotices'[a] > joinNotices[a] => a \in clients
C9_JoinNoticeAfterInsert == [](C9_JoinNoticeState) /\ [][C9_JoinNoticeStep]_vars

\* C9 witness: the join notice of a session has been delivered to another
\* peer while the session is in its receive loop
C9_Witness ==
    \E a, q \in Addrs :
        /\ a # q
        /\ pc[a] = "recv"
        /\ \E i \in DOMAIN out[q] : IsJoinNoticeOf(out[q][i], a)

\* the sequence s is k, k+1, ..., with no gap
Contiguous(s) == \A i \in DOMAIN s : s[i] = s[1] + (i - 1)

\* C10 (as claimed): if B connected after A authenticated and B has received
\* a frame of A, the frames of A that B has received are a prefix of the
\* frames A submitted: they start at A's first frame and have no gap.
C10_ObservedIsPrefix ==
    \A b \in Addrs : \A a \in authAtAccept[b] :
        LET s == SeqsFrom(a, out[b])
        IN s # <<>> => (s[1] = 1 /\ Contiguous(s))

\* C10 (amended): under the same condition the frames of A that B has
\* received are a contiguous run of the frames A submitted, in submission
\* order and without gap; the run starts at the first frame of A that the
\* broadcaster handled after B was inserted into the registry, which need not
\* be A's first frame.
C10_ObservedIsContiguous ==
    \A b \in Addrs : \A a \in authAtAccept[b] :
        Contiguous(SeqsFrom(a, out[b]))

\* C10 witness: B, accepted after A authenticated, has received the second
\* frame of A without the first
C10_Witness ==
    \E b \in Addrs : \E a \in authAtAccept[b] :
        LET s == SeqsFrom(a, out[b])
        IN s # <<>> /\ s[1] = 2

\* the session whose handler handles a frame in run_until_authenticated in
\* this step
AuthActs(a) ==
    /\ pc[a] = "auth"
    /\ nlogin' = nlogin + 1
    /\ out'[a] # out[a] \/ pc'[a] # pc[a]

\* C11: a Login for an existing username with a wrong password is answered
\* with LoginResponse{is_ok = false, err = IncorrectPassword}, the session
\* stays in AUTHENTICATING and is not inserted into the registry; a Login
\* with the correct password, also one that follows refused attempts on the
\* same connection, is answered with success and the session goes on to
\* become ACTIVE.
C11_WrongPasswordStep ==
    \A a \in Addrs :
        (AuthActs(a) /\ db_faults' = db_faults /\ users[pending'[a].name] # NoRow) =>
            LET row == users[pending'[a].name]
            IN IF row.password # pending'[a].password
               THEN /\ out'[a] = Append(out[a], Message_new("LoginResponse",
                                     [is_ok |-> FALSE, message |-> None,
                                      err |-> "IncorrectPassword"]))
                    /\ pc'[a] = "auth"
                    /\ current_user'[a] = NoUserInfo
                    /\ clients' = clients
                    /\ a \notin clients'
               ELSE /\ out'[a] = Append(out[a], Message_new("LoginResponse",
                                     [is_ok |-> TRUE, message |-> "LoginSuccessful",
                                      err |-> None]))
                    /\ pc'[a] = "count"
                    /\ current_user'[a] = [id |-> row.id, username |-> pending'[a].name]
C11_RefusedState ==
    \A a \in refused :
        /\ \E i \in DOMAIN out[a] : IsLoginResponse(out[a][i], FALSE)
        /\ a \in clients => \E i \in DOMAIN out[a] : IsLoginResponse(out[a][i], TRUE)
C11_WrongPasswordThenLogin == [](C11_RefusedState) /\ [][C11_WrongPasswordStep]_vars

\* C11 witness: a session that was refused for a wrong password has then
\* logged in on the same connection and is registered, in its receive loop
C11_Witness ==
    \E a \in refused :
        /\ db_faults = 0
        /\ pc[a] = "recv"
        /\ a \in clients
        /\ Len(out[a]) >= 2
        /\ IsLoginResponse(out[a][1], FALSE)
        /\ IsLoginResponse(out[a][2], TRUE)

\* C12: the successful LoginResponse tells registration from login: the step
\* that inserts the user row of a Login for an unknown username inserts
\* exactly one row and answers with message = UserRegistered; a Login with
\* the correct password for an existing username is answered with
\* message = LoginSuccessful and leaves the users table unchanged.
C12_RegistrationStep ==
    \A a \in Addrs :
        /\ (pc[a] = "insert_user" /\ users' # users /\ out'[a] # out[a]) =>
              /\ Cardinality({n \in Names : users'[n] # users[n]}) = 1
              /\ users[pending[a].name] = NoRow
              /\ users'[pending[a].name] # NoRow
              /\ out'[a] = Append(out[a],
                                  Message_new("LoginResponse", AuthPayload_new_register))
        /\ (AuthActs(a) /\ db_faults' = db_faults
              /\ users[pending'[a].name] # NoRow
              /\ users[pending'[a].name].password = pending'[a].password) =>
              /\ users' = users
              /\ out'[a] = Append(out[a],
                                  Message_new("LoginResponse", AuthPayload_new_login))
C12_ResponseTellsRegistration == [][C12_RegistrationStep]_vars

\* C13: while a session is AUTHENTICATING, a received frame whose payload is
\* not Login is consumed with no effect: no frame is written to any peer,
\* nothing is persisted, nothing is enqueued, the registry is unchanged and
\* every session stays where it was.
C13_IgnoredStep ==
    ignored' > ignored =>
        /\ out' = out
        /\ users' = users /\ messages' = messages /\ next_uuid' = next_uuid
        /\ channel' = channel
        /\ clients' = clients /\ lock' = lock
        /\ pc' = pc /\ current_user' = current_user
        /\ active_connections' = active_connections
C13_NonLoginIgnored == [][C13_IgnoredStep]_vars

\* C13 witness: the only session has received one frame that is not Login
\* and no Login; it is still AUTHENTICATING and nothing was written to it
C13_Witness ==
    /\ ignored = 1
    /\ nlogin = 0
    /\ pc["a1"] = "auth"
    /\ pc["a2"] = "idle"
    /\ out["a1"] = <<>>
    /\ clients = {}

\* C14: if get_user or insert_user fails while a Login is being processed and
\* the connection is still up, the server writes a LoginResponse with
\* is_ok = false to that connection and the session is AUTHENTICATING again,
\* not authenticated, not registered and not ended; no user row is written.
C14_BackendErrorStep ==
    \A a \in Addrs :
        LET get_user_failed == AuthActs(a) /\ db_faults' > db_faults
            insert_user_failed == /\ pc[a] = "insert_user"
                                  /\ pc'[a] # pc[a]
                                  /\ users' = users
        IN ((get_user_failed \/ insert_user_failed) /\ a \notin broken) =>
              /\ Len(out'[a]) = Len(out[a]) + 1
              /\ IsLoginResponse(out'[a][Len(out'[a])], FALSE)
              /\ pc'[a] = "auth"
              /\ current_user'[a] = NoUserInfo
              /\ users' = users
              /\ clients' = clients
              /\ active_connections' = active_connections
C14_BackendErrorKeepsAuthenticating == [][C14_BackendErrorStep]_vars

\* C14 witness: no user row exists, so no password was ever compared; a
\* database call failed and the session, answered with an error response, is
\* AUTHENTICATING on its open connection
C14_Witness ==
    \E a \in Addrs :
        /\ db_faults > 0
        /\ \A n \in Names : users[n] = NoRow
        /\ a \notin broken
        /\ pc[a] = "auth"
        /\ out[a] # <<>>
        /\ IsLoginResponse(out[a][Len(out[a])], FALSE)

\* C15: in ACTIVE, when insert_message fails for a received frame, nothing is
\* persisted, the frame is still stamped with the session's username and
\* appended to the broadcast channel tagged with the session's address, and
\* the session stays in its receive loop and in the registry.
C15_InsertMessageFailedStep ==
    \A a \in Addrs :
        (submitted'[a] > submitted[a] /\ db_faults' > db_faults) =>
            /\ messages' = messages
            /\ Len(channel') = Len(channel) + 1
            /\ SubSeq(channel', 1, Len(channel)) = channel
            /\ LET t == channel'[Len(channel')]
               IN /\ t.addr = a
                  /\ t.msg.sender = current_user[a].username
                  /\ t.msg.src = a
                  /\ t.msg.seq = submitted'[a]
                  /\ t.msg.kind \in SubmitKinds
            /\ pc[a] = "recv" /\ pc'[a] = "recv"
            /\ a \in clients /\ clients' = clients
            /\ active_connections' = active_connections
C15_InsertFailureStillBroadcast == [][C15_InsertMessageFailedStep]_vars

\* C15 witness: a frame whose insert_message failed has been delivered to
\* another peer: every frame submitted so far is missing from the messages
\* table and one of them is on a peer's socket
C15_Witness ==
    \E a, q \in Addrs :
        /\ a # q
        /\ messages = <<>>
        /\ db_faults = Submitted
        /\ pc[a] = "recv"
        /\ a \in clients
        /\ \E i \in DOMAIN out[q] : out[q][i].src = a /\ IsRelayed(out[q][i])

\* the task holding the registry mutex can take its next step
LockHolderCanStep ==
    \/ ENABLED BcCollected
    \/ ENABLED RemoveClient(Broadcaster)

\* C16: in ACTIVE the first receive error ends the session's receive loop
\* with nothing persisted or enqueued for the failed read; the handler then
\* removes exactly its own address from the registry, and no other entry
\* changes: its remove_client is either able to run or waits for a lock
\* holder that can itself go on.
C16_ReceiveErrorStep ==
    \A a \in Addrs :
        /\ (pc[a] = "recv" /\ pc'[a] # "recv") =>
              /\ a \in broken
              /\ pc'[a] = "remove"
              /\ messages' = messages
              /\ channel' = channel
              /\ submitted' = submitted
              /\ clients' = clients
        /\ (pc[a] = "remove" /\ pc'[a] # "remove") =>
              /\ clients' = clients \ {a}
              /\ messages' = messages
              /\ channel' = channel
C16_RemovalCanHappen ==
    \A a \in Addrs :
        pc[a] = "remove" => (ENABLED RemoveClient(a) \/ LockHolderCanStep)
C16_ReceiveErrorRemovesSelf == [](C16_RemovalCanHappen) /\ [][C16_ReceiveErrorStep]_vars

\* sessions that authenticated, were inserted into the registry and whose
\* client closed the connection before submitting any chat frame
ClosedBeforeAnyFrame ==
    {a \in Authenticated \cap broken :
        submitted[a] = 0 /\ pc[a] \in {"recv", "remove", "done"}}

\* C17: if an authenticated client closes its connection before submitting
\* any chat frame, handling the close enqueues nothing on the broadcast
\* channel, no frame is relayed on the session's behalf, and the session is
\* removed from the registry: its handler reaches remove_client, which is
\* able to run or waits for a lock holder that can itself go on.
C17_CloseStep ==
    \A a \in Addrs :
        (a \in ClosedBeforeAnyFrame /\ pc'[a] # pc[a]) =>
            /\ channel' = channel
            /\ messages' = messages
            /\ pc'[a] = "done" => a \notin clients'
C17_CloseState ==
    \A a \in ClosedBeforeAnyFrame :
        /\ \A i \in DOMAIN channel : channel[i].addr = a => ~IsRelayed(channel[i].msg)
        /\ \A q \in Addrs : SeqsFrom(a, out[q]) = <<>>
        /\ pc[a] = "done" => a \notin clients
        /\ pc[a] = "recv" => ENABLED ReceiveErr(a)
        /\ pc[a] = "remove" => (ENABLED RemoveClient(a) \/ LockHolderCanStep)
C17_CloseRemovesSilently == [](C17_CloseState) /\ [][C17_CloseStep]_vars

\* C18: the registry changes only by a session handler inserting or removing
\* its own address and by the broadcaster removing an address whose write
\* failed; every change is made by a task that has just acquired the registry
\* mutex, so none takes effect while a fan-out holds it: from lock
\* acquisition to the end of the fan-out the registry is the one the
\* broadcaster locked, and the peers it writes to are exactly that registry
\* minus the sender.  (The registry is a map keyed by address: an address has
\* at most one entry.)
C18_RegistryStep ==
    clients' # clients =>
        /\ lock = "free"
        /\ \/ \E a \in Addrs : /\ pc[a] = "insert" /\ pc'[a] = "notify"
                               /\ a \notin clients
                               /\ clients' = clients \cup {a}
           \/ \E a \in Addrs : /\ pc[a] = "remove" /\ pc'[a] = "done"
                               /\ clients' = clients \ {a}
           \/ \E a \in clients_to_remove : /\ bcpc = "remove_client"
                                           /\ clients' = clients \ {a}
C18_FanoutState ==
    lock = Broadcaster =>
        /\ bcpc \in {"collected", "remove_client"}
        /\ clients = snap
        /\ \A q \in Addrs : written[q] = IF q \in snap \ {cur.addr} THEN 1 ELSE 0
        /\ clients_to_remove \subseteq snap \ {cur.addr}
C18_RegistrySerialized == [](C18_FanoutState) /\ [][C18_RegistryStep]_vars

\* C18 witness: a fan-out that has written to a peer holds the mutex while
\* the handler of another session waits to insert or to remove its address
C18_Witness ==
    /\ lock = Broadcaster
    /\ \E q \in snap : written[q] = 1
    /\ \E a \in Addrs :
          \/ pc[a] = "insert" /\ a \notin clients
          \/ pc[a] = "remove" /\ a \in clients

\* tuples enqueued on the broadcast channel so far: join notices and chat
\* frames
Enqueued == SumOver(joinNotices, Addrs) + Submitted

\* C19: messages_counter never decreases and, whenever the broadcaster is
\* between tuples, equals the number of tuples it has taken from the channel
\* since the start: every tuple enqueued, join notice or chat frame, that is
\* no longer in the channel.
C19_CounterState ==
    bcpc = "recv" =>
        /\ messages_counter = consumed
        /\ messages_counter = Enqueued - Len(channel)
C19_CounterStep ==
    /\ messages_counter' >= messages_counter
    /\ Len(channel') < Len(channel) => messages_counter' = messages_counter + 1
C19_CounterCountsTuples == [](C19_CounterState) /\ [][C19_CounterStep]_vars

\* C19 witness: between tuples, after a join notice and a chat frame have
\* both been taken from the channel
C19_Witness ==
    /\ bcpc = "recv"
    /\ channel = <<>>
    /\ Submitted >= 1
    /\ messages_counter = Submitted + SumOver(joinNotices, Addrs)
    /\ messages_counter >= 2

\* connections accepted whose handler task has not returned
LiveHandlers == {a \in Addrs : pc[a] \notin {"idle", "done"}}

C21_GaugeStep ==
    LET accepted == {a \in Addrs : pc[a] = "idle" /\ pc'[a] # "idle"}
        ended == {a \in Addrs : pc[a] # "done" /\ pc'[a] = "done"}
    IN /\ Cardinality(accepted) + Cardinality(ended) <= 1
       /\ active_connections' =
              active_connections + Cardinality(accepted) - Cardinality(ended)
       /\ \A a \in Addrs : pc[a] = "done" => pc'[a] = "done"
       /\ \A a \in Addrs : pc'[a] = "idle" => pc[a] = "idle"
C21_GaugeState ==
    /\ active_connections >= 0
    /\ active_connections = Cardinality(Addrs)
                            - Cardinality({a \in Addrs : pc[a] = "idle"})
                            - Cardinality({a \in Addrs : pc[a] = "done"})
C21_GaugeIncDecOnce == [](C21_GaugeState) /\ [][C21_GaugeStep]_vars

\* C21 witness: two handlers have ended on different exit paths, one on a
\* receive error while authenticating, the other after its receive loop and
\* remove_client, and a third connection is still open: the gauge is 1
C21_Witness ==
    /\ active_connections = 1
    /\ \E a, c \in Addrs :
          /\ pc[a] = "done" /\ current_user[a] = NoUserInfo
          /\ pc[c] = "done" /\ joinNotices[c] = 1

\* the whole frame reached the reader
WholeFrame == wire_stream = Frame(wire_msg)

\* C22: for every Message M, decoding the encoding of M yields a Message
\* with the same sender, timestamp and payload as M: deserialize undoes
\* serialize, and receive_msg returns M for the frame send_msg wrote.
C22_RoundTrip ==
    /\ LET d == deserialize(serialize(wire_msg))
       IN /\ d.ok
          /\ d.val.sender = wire_msg.sender
          /\ d.val.timestamp = wire_msg.timestamp
          /\ d.val.data = wire_msg.data
    /\ (wire_pc = "received" /\ WholeFrame) =>
          /\ wire_result.ok
          /\ wire_result.val = wire_msg

\* C22 witness: a File message with a sender and a negative timestamp has
\* been sent and received whole
C22_Witness ==
    /\ wire_pc = "received"
    /\ WholeFrame
    /\ wire_result.ok
    /\ wire_msg.sender = SomeStr(<<97, 108>>)
    /\ wire_msg.timestamp < 0
    /\ wire_msg.data.kind = "File"

\* C23: receive_msg returns a distinct "closed" error when the stream ends
\* before any byte of the length, and a different error when the stream ends
\* inside the length field or inside the body.
C23_ClosedIsDistinct ==
    (wire_pc = "received" /\ ~WholeFrame) =>
        /\ ~wire_result.ok
        /\ wire_stream # <<>> => wire_result.err # receive_msg(<<>>).err

\* the step is a request served by the HTTP API
ApiStep == admin_ops' # admin_ops
\* the step is a DELETE /user/{id} answered by delete_user
DeleteStep == ApiStep /\ http'.request[1] = "DELETE /user"
\* the users table holds a row with this id
KnownId(id) == \E n \in Names : users[n] # NoRow /\ users[n].id = id

\* C24: DELETE /user/{id} answers 500 when remove_user returns a backend
\* error, 204 when it reports exactly one affected row and 404 when it
\* reports none (unknown id); a 204 removes the row, and every later
\* GET /users answered 200 lists exactly the rows of the table, none of them
\* with an id a DELETE answered 204 for.
C24_DeleteUserStatus ==
    /\ [](/\ (http.request[1] = "GET /users" /\ http.status = 200) =>
                \A u \in http.body : u.id \notin deleted_ids
          /\ \A id \in deleted_ids : ~KnownId(id))
    /\ [][/\ DeleteStep =>
               LET id == http'.request[2]
               IN /\ http'.status =
                        (IF db_faults' # db_faults THEN 500
                         ELSE IF KnownId(id) THEN 204 ELSE 404)
                  /\ http'.status = 204 =>
                        /\ rows_affected(users, id) = 1
                        /\ users' = [n \in Names |->
                                        IF users[n].id = id THEN NoRow ELSE users[n]]
                  /\ http'.status # 204 => users' = users
          /\ (ApiStep /\ ~DeleteStep /\ http'.status = 200) =>
               http'.body = {[id |-> users[n].id, username |-> n] :
                                n \in {m \in Names : users[m] # NoRow}}]_vars

\* C24 witness: GET /users answered 200 and lists a user, after a DELETE was
\* answered 204 for another one
C24_Witness ==
    /\ http.request[1] = "GET /users"
    /\ http.status = 200
    /\ http.body # {}
    /\ deleted_ids # {}

\* C25: a request served by the HTTP API changes nothing of the sessions:
\* the registry, the handlers' positions, the channel, the broadcaster and
\* the frames written stay as they are; a session whose user's row has been
\* deleted still enqueues each frame it submits, under its username, for the
\* fan-out; and no step of a session other than a registration changes the
\* users table, in particular not a disconnect or a removal from the registry.
C25_ApiAndSessionsApart ==
    [][/\ ApiStep =>
            /\ clients' = clients /\ pc' = pc /\ lock' = lock
            /\ channel' = channel /\ out' = out /\ broken' = broken
            /\ current_user' = current_user
            /\ active_connections' = active_connections
            /\ bcpc' = bcpc /\ cur' = cur /\ consumed' = consumed
       /\ \A a \in Addrs :
            (submittedAtDelete[a] >= 0 /\ submitted'[a] # submitted[a]) =>
                /\ Len(channel') = Len(channel) + 1
                /\ channel'[Len(channel')].addr = a
                /\ channel'[Len(channel')].msg.sender = current_user[a].username
                /\ channel'[Len(channel')].msg.seq = submitted'[a]
       /\ (~ApiStep /\ users' # users) =>
            \E a \in Addrs : /\ pc[a] = "insert_user"
                             /\ pc'[a] # "insert_user"
                             /\ clients' = clients
                             /\ broken' = broken]_vars

\* C25 witness: a frame submitted by a session after its user's row was
\* deleted has been written to another peer, and the session is still in
\* the registry
C25_Witness ==
    \E a \in Addrs : \E q \in Addrs \ {a} :
        /\ submittedAtDelete[a] >= 0
        /\ a \in clients
        /\ \E i \in DOMAIN out[q] : /\ out[q][i].src = a
                                    /\ out[q][i].seq > submittedAtDelete[a]

\* str starts with prefix
StartsWith(str, prefix) ==
    Len(prefix) <= Len(str) /\ SubSeq(str, 1, Len(prefix)) = prefix
\* the messages a request for the given prefix is to choose from: all of
\* them, or those of the authors whose username starts with the prefix
Eligible(prefix) ==
    {i \in DOMAIN q_messages :
        \E n \in DOMAIN q_users :
            /\ q_users[n] = q_messages[i].user_id
            /\ (prefix = <<>> \/ StartsWith(n, prefix))}

\* C26: the rows GET /messages returns are at most 50, in descending order
\* of timestamp; they are messages of authors whose username starts with the
\* prefix (any author for the empty prefix), and the most recent of those: as
\* many as there are up to 50, none older than a message left out.
C26_PrefixFilter ==
    (q_pc = "done" /\ q_response.status = 200) =>
        LET rows == q_response.body
            prefix == UsernameParam(q_query)
            ids == {rows[k].id : k \in DOMAIN rows}
        IN /\ Len(rows) <= 50
           /\ \A k \in 1..(Len(rows) - 1) : rows[k].timestamp >= rows[k + 1].timestamp
           /\ ids \subseteq Eligible(prefix)
           /\ Cardinality(ids) = Len(rows)
           /\ Len(rows) = IF Cardinality(Eligible(prefix)) > 50 THEN 50
                          ELSE Cardinality(Eligible(prefix))
           /\ \A i \in Eligible(prefix) \ ids : \A k \in DOMAIN rows :
                 q_messages[i].timestamp <= rows[k].timestamp

\* the text the messages table is to hold for a payload
StoredText(kind, arg) ==
    IF kind = "Text" THEN <<arg>>
    ELSE IF kind = "Image" THEN <<"img sent">>
    ELSE IF kind = "File" THEN <<"file sent: ", arg[1]>>
    ELSE <<>>

\* C27: when a session receives a frame in ACTIVE and insert_message
\* succeeds, exactly one row is appended to the messages table; its text is
\* s for Text(s), "img sent" for Image, "file sent: " and the name for
\* File(name, _), and empty for ServerInfo, Login and LoginResponse; its
\* user id is the id of the session's authenticated user, whatever the
\* frame's sender field was.
C27_StoredTextAndUser ==
    [][\A a \in Addrs, kind \in PayloadKinds, sender \in ClientSenders :
          ReceiveFrame(a, kind, sender, TRUE) =>
              /\ Len(messages') = Len(messages) + 1
              /\ SubSeq(messages', 1, Len(messages)) = messages
              /\ messages'[Len(messages')].data = StoredText(kind, PayloadArg(kind))
              /\ messages'[Len(messages')].user_id = current_user[a].id
              /\ current_user[a].id > 0
              /\ users[current_user[a].username].id = current_user[a].id]_vars

\* C27 witness: the table holds the rows of a File and of a Login frame that
\* one session submitted
C27_Witness ==
    /\ Len(messages) = 2
    /\ messages[1].user_id = messages[2].user_id
    /\ \E i \in {1, 2} : /\ messages[i].data = <<"file sent: ", "notes.txt">>
                         /\ messages[3 - i].data = <<>>

\* C28: a Login for a user whose stored salt or hash is not base64 is
\* answered with LoginResponse{is_ok = false}; the session stays in
\* AUTHENTICATING, gets no user and is not inserted into the registry, so no
\* session is ever authenticated as that user.
C28_DecodeFailureStep ==
    \A a \in Addrs :
        (AuthActs(a) /\ db_faults' = db_faults
           /\ users[pending'[a].name] # NoRow
           /\ ~Decodes(users[pending'[a].name])) =>
            /\ Len(out'[a]) = Len(out[a]) + 1
            /\ IsLoginResponse(out'[a][Len(out'[a])], FALSE)
            /\ pc'[a] = "auth"
            /\ current_user'[a] = NoUserInfo
            /\ clients' = clients
            /\ users' = users
C28_NeverAuthenticated ==
    \A a \in Addrs :
        /\ current_user[a] # NoUserInfo => Decodes(users[current_user[a].username])
        /\ a \in clients => current_user[a] # NoUserInfo
C28_UndecodableNeverLogsIn ==
    [](C28_NeverAuthenticated) /\ [][C28_DecodeFailureStep]_vars

\* C28 witness: a session has sent two Logins for the user with the
\* undecodable row, was answered is_ok = false both times and is still
\* authenticating, while the row is as it was
C28_Witness ==
    \E a \in Addrs :
        /\ pc[a] = "auth"
        /\ db_faults = 0
        /\ pending[a].name = "alice"
        /\ ~Decodes(users["alice"])
        /\ Len(out[a]) = 2
        /\ IsLoginResponse(out[a][1], FALSE)
        /\ IsLoginResponse(out[a][2], FALSE)
        /\ current_user[a] = NoUserInfo
        /\ a \notin clients

\* C29: once the two tasks are spawned, main returns when and only when one
\* of them has terminated: while it waits and a task has terminated, the exit
\* is enabled whatever the other task does, and it is taken; the exit logs
\* the outcome of a terminated task and leaves the other one, if it is still
\* running, unawaited.
C29_ExitState ==
    /\ (main_pc = "select" /\ \E t \in Tasks : Terminated(TaskState(t))) =>
            ENABLED (\E t \in Tasks : SelectExit(t))
    /\ (main_pc = "select" /\ \A t \in Tasks : ~Terminated(TaskState(t))) =>
            ~ENABLED (\E t \in Tasks : SelectExit(t))
    /\ (main_pc = "exited" /\ main_log[1] \in Tasks) =>
            /\ Terminated(TaskState(main_log[1]))
            /\ main_log = log_exit(main_log[1], TaskState(main_log[1]))
            /\ \A t \in Tasks : TaskState(t) # "running"
C29_ExitsOnFirstTermination ==
    /\ [](C29_ExitState)
    /\ (main_pc = "select" /\ \E t \in Tasks : Terminated(TaskState(t)))
          ~> (main_pc = "exited")

\* C29 witness: main has returned after the API task failed, while the chat
\* server task had not terminated and had work left
C29_Witness ==
    /\ main_pc = "exited"
    /\ main_log = <<"Api", "failed">>
    /\ chat_server_task = "dropped"
    /\ task_work[1] < MaxWork

\* the frames of a stream that precede its first receive error
RECURSIVE FramesBeforeError(_)
FramesBeforeError(stream) ==
    IF stream = <<>> \/ Head(stream).kind = "malformed" THEN <<>>
    ELSE <<Head(stream)>> \o FramesBeforeError(Tail(stream))

\* C30: handle_message is called with the frames in the order they arrive;
\* the receiver stops only at the first receive error, having handled every
\* frame before it, also those that follow a frame whose handling failed,
\* and start then returns Ok(()).
C30_ReceiverStopsAtReceiveError ==
    /\ Len(rx_handled) <= Len(FramesBeforeError(rx_stream))
    /\ rx_handled = SubSeq(FramesBeforeError(rx_stream), 1, Len(rx_handled))
    /\ rx_pc \notin {"receive", "off"} =>
          /\ rx_pc = "Ok(())"
          /\ rx_handled = FramesBeforeError(rx_stream)

\* the frames of a sequence of Messages, one after the other
RECURSIVE Frames(_)
Frames(msgs) == IF msgs = <<>> THEN <<>> ELSE Frame(Head(msgs)) \o Frames(Tail(msgs))

\* C31: after send_msg has returned Ok for a sequence of Messages, the bytes
\* on the stream are their frames in order, each four big-endian length bytes
\* and that many body bytes, and receive_msg called repeatedly returns the
\* same Messages in the same order, also when a write call accepted fewer
\* bytes than it was offered.
C31_FramesArriveWhole ==
    sink_pc = "length" =>
        /\ sink_stream = Frames(sink_sent)
        /\ ReceiveAll(sink_stream) = [i \in DOMAIN sink_sent |-> Ok(sink_sent[i])]

\* C32: the broadcaster is always in its loop, it never ends; a tuple it has
\* taken is written to every peer that was registered when it took the lock,
\* except the tuple's sender; and, as long as no write to a peer fails, the
\* k-th tuple enqueued on the channel is eventually taken from it, for
\* every k.
C32_FanoutState ==
    /\ bcpc \in {"recv", "collected", "remove_client"}
    /\ consumed <= Enqueued
    /\ (bcpc = "collected" /\ clients_to_remove = {}) =>
          \A q \in snap \ {cur.addr} :
              /\ written[q] = 1
              /\ out[q] # <<>>
              /\ SameFrame(out[q][Len(out[q])], cur.msg)
C32_EveryTupleIsFannedOut ==
    /\ [](C32_FanoutState)
    /\ ([](clients_to_remove = {})) =>
          \A k \in 1..FairEvents : (Enqueued >= k) ~> (consumed >= k)

\* C32 witness: three tuples have been enqueued and taken, the last one is
\* written to a peer, and no write has failed
C32_Witness ==
    /\ Enqueued = 3
    /\ consumed = 3
    /\ bcpc = "collected"
    /\ clients_to_remove = {}
    /\ Cardinality(broken) = 0
    /\ snap \ {cur.addr} # {}

\* C33: no frame the server has written to a peer carries a Login payload,
\* whatever the authenticated clients submit, and the user of a session past
\* its handshake is never replaced.
C33_UserKeptStep ==
    \A a \in Addrs :
        (pc[a] \in {"recv", "remove_client"} /\ pc'[a] \in {"recv", "remove_client"})
            => current_user'[a] = current_user[a]
C33_NoLoginWritten ==
    /\ [](\A q \in Addrs : \A i \in DOMAIN out[q] : out[q][i].kind # "Login")
    /\ [][C33_UserKeptStep]_vars

\* C34: an error returned by accept is counted (logged) and changes nothing
\* else: no session is spawned, the listener stays bound, and the next
\* address in the accept order can still be accepted while inputs remain; when
\* bind fails start has returned Err(Bind), no session has been spawned, the
\* broadcaster has not been spawned and no step is left.
C34_AcceptErrorStep ==
    accept_errors' # accept_errors =>
        /\ accept_errors' = accept_errors + 1
        /\ listener' = "listening"
        /\ pc' = pc
        /\ active_connections' = active_connections
        /\ broadcaster' = broadcaster
C34_ListenerState ==
    /\ (listener = "listening" /\ accept_errors > 0 /\ Events < max_events) =>
          \A a \in Addrs :
              (/\ pc[a] = "idle"
               /\ \A i \in DOMAIN AcceptOrder :
                     AcceptOrder[i] = a => \A j \in 1..(i - 1) : pc[AcceptOrder[j]] # "idle")
                  => ENABLED Accept(a)
    /\ listener = "Err(Bind)" =>
          /\ \A a \in Addrs : pc[a] = "idle"
          /\ broadcaster = "none"
          /\ active_connections = 0
          /\ ~ENABLED ListenNext
    /\ listener = "unbound" =>
          /\ \A a \in Addrs : pc[a] = "idle"
          /\ broadcaster = "none"
C34_ListenerSurvivesAcceptErrors ==
    /\ [](C34_ListenerState)
    /\ [][C34_AcceptErrorStep]_vars

\* C34 witness: accept has failed twice and two sessions are running, the
\* third address can still be accepted
C34_Witness ==
    /\ accept_errors = MaxAcceptErrors
    /\ listener = "listening"
    /\ pc["a1"] # "idle"
    /\ pc["a2"] # "idle"
    /\ ENABLED Accept("a3")

\* C34 witness: bind has failed
C34_WitnessBind == listener = "Err(Bind)" /\ ~ENABLED ListenNext

\* C35: whenever a session handler that has inserted its address into the
\* registry returns, by whatever path, its address is not in the registry
\* after the step in which it returns.
C35_ReturnStep ==
    \A a \in Addrs :
        (pc[a] \in {"notify", "recv", "remove"} /\ pc'[a] = "done")
            => a \notin clients'
C35_EveryExitDeregisters == [][C35_ReturnStep]_vars

\* C36: a session whose insert_user finds a row of its username already
\* there (another connection registered the name after this one's get_user)
\* adds no row and issues no id, is answered with LoginResponse{is_ok = false}
\* while its connection is up, is neither authenticated nor registered and is
\* AUTHENTICATING again; a Login with the password of the existing row then
\* authenticates it as the user of that one row. Every authenticated session
\* of a username refers to the single row of that username.
C36_LoserStep ==
    \A a \in Addrs :
        (pc[a] = "insert_user" /\ pc'[a] # pc[a] /\ users[pending[a].name] # NoRow) =>
            /\ users' = users
            /\ next_uuid' = next_uuid
            /\ current_user'[a] = NoUserInfo
            /\ a \notin clients'
            /\ pc'[a] \in {"auth", "done"}
            /\ pc'[a] = "auth" =>
                  /\ Len(out'[a]) = Len(out[a]) + 1
                  /\ IsLoginResponse(out'[a][Len(out'[a])], FALSE)
C36_RetryStep ==
    \A a \in Addrs :
        (/\ AuthActs(a)
         /\ db_faults' = db_faults
         /\ users[pending'[a].name] # NoRow
         /\ users[pending'[a].name].password = pending'[a].password) =>
            /\ pc'[a] \in {"count", "done"}
            /\ pc'[a] = "count" =>
                  /\ current_user'[a] = [id |-> users[pending'[a].name].id,
                                         username |-> pending'[a].name]
                  /\ IsLoginResponse(out'[a][Len(out'[a])], TRUE)
C36_OneRowPerName ==
    \A a \in Addrs :
        current_user[a] # NoUserInfo =>
            /\ users[current_user[a].username] # NoRow
            /\ users[current_user[a].username].id = current_user[a].id
C37_SnapshotStep ==
    \A a \in Addrs :
        /\ (pc[a] = "count" /\ pc'[a] # pc[a]) =>
              /\ lock = "free" /\ lock' = "free"
              /\ a \notin clients
              /\ clients_count'[a] = Cardinality(clients)
              /\ clients' = clients
              /\ pc'[a] \in {"insert", "done"}
              /\ pc'[a] = "insert" =>
                    /\ IsWelcome(out'[a][Len(out'[a])])
                    /\ out'[a][Len(out'[a])].arg[2] = Cardinality(clients)
        /\ (pc[a] = "insert" /\ clients' # clients) =>
              /\ clients_count'[a] = clients_count[a]
              /\ out'[a] = out[a] \/ out'[a] = Append(out[a], cur'.msg)
C37_SnapshotState ==
    \A a \in Addrs :
        pc[a] \in {"insert", "notify", "recv", "remove"} =>
            clients_count[a] = othersAtSnapshot[a]
C37_WelcomeCountIsSnapshot ==
    /\ [](C37_SnapshotState)
    /\ [][C37_SnapshotStep]_vars

\* C37 witness: a1 and a2 authenticated concurrently, both read the registry
\* before either was inserted, both are registered now and both were told 0
C37_Witness ==
    /\ {"a1", "a2"} \subseteq clients
    /\ clients_count["a1"] = 0
    /\ clients_count["a2"] = 0
    /\ \E i \in DOMAIN out["a1"] : IsWelcome(out["a1"][i]) /\ out["a1"][i].arg[2] = 0
    /\ \E i \in DOMAIN out["a2"] : IsWelcome(out["a2"][i]) /\ out["a2"][i].arg[2] = 0

\* C38: a session of a username is registered while another connection
\* logs in with the same username: the login succeeds as the same user, the
\* insert adds the second address next to the first, a later peer's N counts
\* both, and a frame relayed from one of the two is written to the other,
\* stamped with their common username.
C38_SameUserStep ==
    \A a \in Addrs : \A b \in clients \ {a} :
        /\ (/\ AuthActs(a)
            /\ db_faults' = db_faults
            /\ pending'[a].name = current_user[b].username
            /\ users[pending'[a].name].password = pending'[a].password) =>
              /\ pc'[a] \in {"count", "done"}
              /\ pc'[a] = "count" => current_user'[a] = current_user[b]
        /\ (pc[a] = "insert" /\ pc'[a] # pc[a] /\ current_user[a] = current_user[b]) =>
              /\ clients' = clients \cup {a}
              /\ Cardinality(clients') = Cardinality(clients) + 1
        /\ (a \in clients /\ current_user[a] = current_user[b]) =>
              \A c \in Addrs \ {a, b} :
                  (pc[c] = "count" /\ pc'[c] # pc[c]) => clients_count'[c] >= 2
        /\ (/\ bcpc = "recv" /\ bcpc' = "collected"
            /\ cur'.addr = a
            /\ IsRelayed(cur'.msg)
            /\ current_user[a] = current_user[b]
            /\ b \notin clients_to_remove') =>
              /\ out'[b] = Append(out[b], cur'.msg)
              /\ cur'.msg.sender = current_user[b].username
C38_SameUserOnTwoConnections == [][C38_SameUserStep]_vars

\* C38 witness: a1 and a2 are both registered as alice, a2 was told N = 1,
\* and a frame a1 submitted is on a2's socket with sender alice
C38_Witness ==
    /\ {"a1", "a2"} \subseteq clients
    /\ current_user["a1"].username = "alice"
    /\ current_user["a2"] = current_user["a1"]
    /\ pc["a1"] = "recv" /\ pc["a2"] = "recv"
    /\ clients_count["a2"] = 1
    /\ \E i \in DOMAIN out["a2"] :
          /\ IsRelayed(out["a2"][i])
          /\ out["a2"][i].src = "a1"
          /\ out["a2"][i].sender = "alice"

\* a third peer was told N = 2 while alice is registered on a1 and on a2
C38_BothCounted ==
    /\ {"a1", "a2"} \subseteq clients
    /\ current_user["a2"] = current_user["a1"]
    /\ current_user["a1"] # NoUserInfo
    /\ clients_count["a3"] = 2

\* C39: with an encryption key, handling a received Text frame whose writes
\* succeed either displays the message or writes "Unable to decrypt message"
\* and returns Ok, and the receiver goes on to its next read; a frame that is
\* not Text is displayed as without a key.
C39_KeyedStep ==
    (rx_key /\ rx_pc = "receive" /\ Len(rx_handled') = Len(rx_handled) + 1
            /\ rx_errors' = rx_errors) =>
        /\ rx_pc' = "receive"
        /\ IF NextItem.kind = "Text"
           THEN \/ rx_written' = rx_written \o <<"message">>
                \/ rx_written' = rx_written \o <<"Unable to decrypt message">>
           ELSE rx_written' = rx_written \o handle_message(NextItem, FALSE, TRUE).written
C39_DecryptNeverAborts == [][C39_KeyedStep]_vars

====
